---- MODULE Spec2Model ----
(***************************************************************************)
(* A model of the Moss GPU daemon (mossd): the Configuration Manager       *)
(* (in-memory tables, load and save of the JSON document), the Devices     *)
(* Manager with its fan scheduler and the driver state it writes, and the  *)
(* four actors with their bounded channels and the cancellation token.     *)
(*                                                                         *)
(* Three specifications share the module:                                  *)
(*   SpecCfg     the Configuration Manager handling messages               *)
(*   SpecDev     the Devices Manager run loop over discrete time           *)
(*   SpecActors  the four actors, their channels, startup and shutdown     *)
(* Variables a specification does not use stay at their initial value.     *)
(***************************************************************************)
EXTENDS Integers, Sequences, FiniteSets, TLC

(***************************************************************************)
(* Option<T>: None is the empty sequence, Some(v) the one-element one.     *)
(***************************************************************************)
None == << >>

Some(v) == << v >>

IsSome(o) == o # << >>

Unwrap(o) == o[1]

\* HashMap::insert
Put(m, k, v) == [x \in (DOMAIN m) \cup {k} |-> IF x = k THEN v ELSE m[x]]

EmptyMap == [x \in {} |-> 0]

\* Every order in which the entries of a set can be iterated (HashMap::iter
\* gives no order guarantee).
RECURSIVE Perms(_)
Perms(S) ==
    IF S = {} THEN { << >> }
    ELSE UNION { { << x >> \o p : p \in Perms(S \ {x}) } : x \in S }

(***************************************************************************)
(* Program constants.                                                      *)
(***************************************************************************)
DEFAULT_PROFILE_NAME == "default"

\* Durations are whole seconds.
DEFAULT_FAN_UPDATE_INTERVAL == 3

\* mpsc::channel(16): the capacity of every actor queue and of the error sink
CHANNEL_CAPACITY == 16

(***************************************************************************)
(* FanMode (Auto | Curve | Manual(u8)).                                    *)
(***************************************************************************)
FanAuto == [kind |-> "Auto", speed |-> 0]

FanCurveMode == [kind |-> "Curve", speed |-> 0]

FanManual(p) == [kind |-> "Manual", speed |-> p]

ClampSpeed_kept(p) == p

\* u8::clamp(0, 100)
ClampSpeed(p) == IF p > 100 THEN 100 ELSE IF p < 0 THEN 0 ELSE p

(***************************************************************************)
(* Duration <-> f32 seconds, for whole-second durations below 2^25 s.      *)
(* An f32 has a 24 bit significand: integers up to 2^24 are exact, and     *)
(* between 2^24 and 2^25 only the even ones are (round to nearest, ties    *)
(* to the even significand).                                               *)
(***************************************************************************)
F32OfInt(n) ==
    IF n <= 2^24 THEN n
    ELSE LET q == n \div 2
         IN  IF n % 2 = 0 THEN n
             ELSE IF q % 2 = 0 THEN 2 * q ELSE 2 * (q + 1)

\* Duration::as_secs_f32
as_secs_f32(d) == F32OfInt(d)

\* Duration::from_secs_f32 (defined for a non-negative value; it panics
\* on a negative one)
from_secs_f32(f) == f


(***************************************************************************)
(* Configuration Manager: the values messages and files are drawn from.    *)
(***************************************************************************)
CfgUuids == {"GPU-a", "GPU-b"}

ProfileNames == {DEFAULT_PROFILE_NAME, "p1"}

CurveNames == {"c1"}

ConfigNames == {"k1"}

SetModes == {FanAuto, FanManual(40), FanManual(250)}

\* 16777217 s = 2^24 + 1 s
SetIntervals == {1, 2^24 + 1}

\* FanCurveInfo
CurveInfoA ==
    [points |-> << <<40, 30>>, <<60, 70>> >>,
     lower_threshold |-> None, upper_threshold |-> None]

CurveInfoB ==
    [points |-> << <<0, 100>> >>,
     lower_threshold |-> Some(3), upper_threshold |-> Some(3)]

CurveInfos == {CurveInfoA, CurveInfoB}

\* GpuConfig { nvidia_config: NvidiaConfig, power_limit }
GpuConfigA ==
    [nvidia_config |-> [core_clock_offset |-> Some(100),
                        mem_clock_offset |-> None],
     power_limit |-> None]

GpuConfigB ==
    [nvidia_config |-> [core_clock_offset |-> None,
                        mem_clock_offset |-> Some(50)],
     power_limit |-> Some(200)]

GpuConfigsSet == {GpuConfigA, GpuConfigB}

\* The number of messages the manager handles after the first SaveConfig.
MaxAfterSave == 1

(***************************************************************************)
(* The JSON document.  An entry with valid = FALSE is one serde rejects    *)
(* (a required field is missing or a number is out of its type's range).   *)
(***************************************************************************)
FanModeJsonDefault ==
    [auto |-> None, curve |-> None, manual |-> None, manaul_speed |-> None]

GpuJson(u, p) == [valid |-> TRUE, uuid |-> u, profile |-> p]

BadGpuJson == [valid |-> FALSE, uuid |-> "", profile |-> ""]

ProfileJson(n, fm, fc, c, ui) ==
    [valid |-> TRUE, name |-> n, fan_mode |-> fm, fan_curve |-> fc,
     config |-> c, update_interval |-> ui]

FanCurveJson(n, pts, up, down) ==
    [valid |-> TRUE, name |-> n, points |-> pts,
     hysteresis_up |-> up, hysteresis_down |-> down]

ConfigJson(n, pl, nv) ==
    [valid |-> TRUE, name |-> n, power_limit |-> pl, nvidia |-> nv]

Document(g, p, f, c) ==
    [kind |-> "json", gpus |-> g, profiles |-> p, fan_curves |-> f,
     configs |-> c]

\* No file at the path: File::open fails.
MissingFile ==
    [kind |-> "missing", gpus |-> << >>, profiles |-> << >>,
     fan_curves |-> << >>, configs |-> << >>]

\* A file that is not JSON: serde_json::from_reader fails.
MalformedFile ==
    [kind |-> "malformed", gpus |-> << >>, profiles |-> << >>,
     fan_curves |-> << >>, configs |-> << >>]

\* "{}": every array absent.
EmptyDoc == Document(<< >>, << >>, << >>, << >>)

\* A document with redefinitions, an entry for the default profile, a
\* profile whose fan_mode is invalid and entries serde rejects.
SampleDoc ==
    Document(
      << GpuJson("GPU-a", "p1"), GpuJson("GPU-a", DEFAULT_PROFILE_NAME),
         BadGpuJson >>,
      << ProfileJson("p1", [FanModeJsonDefault EXCEPT !.curve = Some(TRUE)],
                     Some("c1"), Some("k1"), None),
         ProfileJson(DEFAULT_PROFILE_NAME,
                     [FanModeJsonDefault EXCEPT !.manual = Some(TRUE),
                                                !.manaul_speed = Some(50)],
                     None, None, Some(1)),
         ProfileJson("p1", [FanModeJsonDefault EXCEPT !.auto = Some(TRUE)],
                     None, None, Some(1)) >>,
      << FanCurveJson("c1", CurveInfoA.points, None, None),
         FanCurveJson("c1", CurveInfoB.points, Some(3), Some(3)) >>,
      << ConfigJson("k1", Some(200), None),
         ConfigJson("k1", None,
                    Some([core_offset |-> Some(100), mem_offset |-> None])) >>)

\* A binding to a profile that is not defined, and a profile entry whose
\* fan_mode sets two flags.
DanglingDoc ==
    Document(
      << GpuJson("GPU-b", "p1") >>,
      << ProfileJson("p1", [FanModeJsonDefault EXCEPT !.auto = Some(TRUE),
                                                      !.curve = Some(TRUE)],
                     None, None, None) >>,
      << >>,
      << >>)

\* A profile entry with a negative update_interval.
NegativeIntervalDoc ==
    Document(
      << >>,
      << ProfileJson("p1", [FanModeJsonDefault EXCEPT !.auto = Some(TRUE)],
                     None, None, Some(0 - 1)) >>,
      << >>,
      << >>)

\* A profile defined twice, the first time in manual mode without a speed.
RedefinedDoc ==
    Document(
      << >>,
      << ProfileJson("p1", [FanModeJsonDefault EXCEPT !.manual = Some(TRUE)],
                     None, None, None),
         ProfileJson("p1", [FanModeJsonDefault EXCEPT !.auto = Some(TRUE)],
                     None, None, None) >>,
      << >>,
      << >>)

InitialFiles ==
    {MissingFile, MalformedFile, EmptyDoc, SampleDoc, DanglingDoc,
     NegativeIntervalDoc, RedefinedDoc}

(***************************************************************************)
(* Conversions between the JSON types and the in-memory types.             *)
(***************************************************************************)
\* TryFrom<FanModeJson> for FanMode; None is the Err result.
FanMode_try_from(j) ==
    LET auto   == IF IsSome(j.auto) THEN Unwrap(j.auto) ELSE FALSE
        curve  == IF IsSome(j.curve) THEN Unwrap(j.curve) ELSE FALSE
        manual == IF IsSome(j.manual) THEN Unwrap(j.manual) ELSE FALSE
    IN  IF auto /\ ~curve /\ ~manual THEN Some(FanAuto)
        ELSE IF ~auto /\ curve /\ ~manual THEN Some(FanCurveMode)
        ELSE IF ~auto /\ ~curve /\ manual
             THEN IF IsSome(j.manaul_speed)
                  THEN Some(FanManual(ClampSpeed(Unwrap(j.manaul_speed))))
                  ELSE None
        ELSE None

\* TryFrom<FanMode> for FanModeJson
FanModeJson_try_from(mode) ==
    IF mode.kind = "Auto" THEN [FanModeJsonDefault EXCEPT !.auto = Some(TRUE)]
    ELSE IF mode.kind = "Curve"
         THEN [FanModeJsonDefault EXCEPT !.curve = Some(TRUE)]
    ELSE [FanModeJsonDefault EXCEPT !.manual = Some(TRUE),
                                    !.manaul_speed = Some(mode.speed)]

\* impl Default for ProfileData
ProfileDataDefault ==
    [fan_mode |-> FanAuto, fan_curve |-> None, config |-> None,
     update_interval |-> DEFAULT_FAN_UPDATE_INTERVAL]

\* Duration::from_secs_f32 panics on the update_interval of this entry.
ProfileJsonPanics(j) ==
    IsSome(j.update_interval) /\ Unwrap(j.update_interval) < 0

\* TryFrom<ProfileJson> for ProfileData; None is the Err result.
ProfileData_try_from(j) ==
    LET update_interval ==
            IF IsSome(j.update_interval)
            THEN from_secs_f32(Unwrap(j.update_interval))
            ELSE DEFAULT_FAN_UPDATE_INTERVAL
        mode == FanMode_try_from(j.fan_mode)
    IN  IF IsSome(mode)
        THEN Some([fan_mode |-> Unwrap(mode), fan_curve |-> j.fan_curve,
                   config |-> j.config, update_interval |-> update_interval])
        ELSE None

\* TryFrom<(&String, &ProfileData)> for ProfileJson
ProfileJson_try_from(name, p) ==
    ProfileJson(name, FanModeJson_try_from(p.fan_mode), p.fan_curve, p.config,
                Some(as_secs_f32(p.update_interval)))

\* TryFrom<FanCurveJson> for FanCurveInfo
FanCurveInfo_try_from(j) ==
    [points |-> j.points, lower_threshold |-> j.hysteresis_down,
     upper_threshold |-> j.hysteresis_up]

\* TryFrom<(&String, &FanCurveInfo)> for FanCurveJson
FanCurveJson_try_from(name, c) ==
    FanCurveJson(name, c.points, c.upper_threshold, c.lower_threshold)

\* TryFrom<ConfigJson> for GpuConfig (NvidiaConfig::default() when the
\* nvidia object is absent)
GpuConfig_try_from(j) ==
    [nvidia_config |->
        IF IsSome(j.nvidia)
        THEN [core_clock_offset |-> Unwrap(j.nvidia).core_offset,
              mem_clock_offset |-> Unwrap(j.nvidia).mem_offset]
        ELSE [core_clock_offset |-> None, mem_clock_offset |-> None],
     power_limit |-> j.power_limit]

\* TryFrom<(&String, &GpuConfig)> for ConfigJson
ConfigJson_try_from(name, c) ==
    ConfigJson(name, c.power_limit,
               Some([core_offset |-> c.nvidia_config.core_clock_offset,
                     mem_offset |-> c.nvidia_config.mem_clock_offset]))

(***************************************************************************)
(* The tables of a ConfigManager, as one record.                           *)
(***************************************************************************)
\* ConfigManager::new
NewConfigManager ==
    [gpu_datas |-> EmptyMap, profile_datas |-> EmptyMap,
     fan_curve_datas |-> EmptyMap, config_datas |-> EmptyMap]

\* ConfigManager::parse_gpu
parse_gpu(cm, j) ==
    IF ~j.valid THEN cm
    ELSE IF j.uuid \in DOMAIN cm.gpu_datas THEN cm
    ELSE [cm EXCEPT !.gpu_datas =
            Put(@, j.uuid, [uuid |-> j.uuid, profile |-> j.profile])]

\* ConfigManager::parse_profile
parse_profile(cm, j) ==
    IF ~j.valid THEN cm
    ELSE IF j.name \in DOMAIN cm.profile_datas THEN cm
    ELSE IF IsSome(ProfileData_try_from(j))
         THEN [cm EXCEPT !.profile_datas =
                 Put(@, j.name, Unwrap(ProfileData_try_from(j)))]
    ELSE cm

\* ConfigManager::parse_fan_curve
parse_fan_curve(cm, j) ==
    IF ~j.valid THEN cm
    ELSE IF j.name \in DOMAIN cm.fan_curve_datas THEN cm
    ELSE [cm EXCEPT !.fan_curve_datas =
            Put(@, j.name, FanCurveInfo_try_from(j))]

\* ConfigManager::parse_config
parse_config(cm, j) ==
    IF ~j.valid THEN cm
    ELSE IF j.name \in DOMAIN cm.config_datas THEN cm
    ELSE [cm EXCEPT !.config_datas = Put(@, j.name, GpuConfig_try_from(j))]

RECURSIVE ParseGpus(_, _)
ParseGpus(cm, s) ==
    IF s = << >> THEN cm ELSE ParseGpus(parse_gpu(cm, Head(s)), Tail(s))

RECURSIVE ParseProfiles(_, _)
ParseProfiles(cm, s) ==
    IF s = << >> THEN cm
    ELSE ParseProfiles(parse_profile(cm, Head(s)), Tail(s))

RECURSIVE ParseFanCurves(_, _)
ParseFanCurves(cm, s) ==
    IF s = << >> THEN cm
    ELSE ParseFanCurves(parse_fan_curve(cm, Head(s)), Tail(s))

RECURSIVE ParseConfigs(_, _)
ParseConfigs(cm, s) ==
    IF s = << >> THEN cm
    ELSE ParseConfigs(parse_config(cm, Head(s)), Tail(s))

\* Whether loading the profiles array reaches an entry on which
\* Duration::from_secs_f32 panics: an entry serde accepts, whose name is
\* not yet in the table, with a negative update_interval.
RECURSIVE ProfilesPanic(_, _)
ProfilesPanic(cm, s) ==
    IF s = << >> THEN FALSE
    ELSE LET j == Head(s)
         IN  \/ /\ j.valid
                /\ j.name \notin DOMAIN cm.profile_datas
                /\ ProfileJsonPanics(j)
             \/ ProfilesPanic(parse_profile(cm, j), Tail(s))

\* The insert of the default profile at the head of parse_config_file
InsertDefaultProfile_skipped(cm) == cm

InsertDefaultProfile(cm) ==
    [cm EXCEPT !.profile_datas =
        Put(@, DEFAULT_PROFILE_NAME, ProfileDataDefault)]

\* ConfigManager::parse_config_file: the tables afterwards, the error it
\* returns (None when Ok) and whether it panicked on the way.
parse_config_file(cm, file) ==
    LET cm0 == InsertDefaultProfile(cm)
        cm1 == ParseGpus(cm0, file.gpus)
    IN  IF file.kind = "missing"
        THEN [cm |-> cm0, err |-> Some("IO"), panicked |-> FALSE]
        ELSE IF file.kind = "malformed"
        THEN [cm |-> cm0, err |-> Some("Json"), panicked |-> FALSE]
        ELSE IF ProfilesPanic(cm1, file.profiles)
        THEN [cm |-> cm1, err |-> None, panicked |-> TRUE]
        ELSE [cm |-> ParseConfigs(
                       ParseFanCurves(ParseProfiles(cm1, file.profiles),
                                      file.fan_curves),
                       file.configs),
              err |-> None, panicked |-> FALSE]

\* save_config, the loop over profile_datas: the names written, which are
\* all but the default profile's.
SavedProfiles_all(cm) == DOMAIN cm.profile_datas

SavedProfiles(cm) == (DOMAIN cm.profile_datas) \ {DEFAULT_PROFILE_NAME}

\* The documents ConfigManager::save_config can write for these tables: the
\* default profile is skipped, every other entry is written, in whatever
\* order the hash maps iterate.
save_config(cm) ==
    LET gpus == { GpuJson(cm.gpu_datas[u].uuid, cm.gpu_datas[u].profile) :
                    u \in DOMAIN cm.gpu_datas }
        profiles == { ProfileJson_try_from(n, cm.profile_datas[n]) :
                        n \in SavedProfiles(cm) }
        curves == { FanCurveJson_try_from(n, cm.fan_curve_datas[n]) :
                      n \in DOMAIN cm.fan_curve_datas }
        configs == { ConfigJson_try_from(n, cm.config_datas[n]) :
                       n \in DOMAIN cm.config_datas }
    IN  { Document(g, p, f, c) :
            g \in Perms(gpus), p \in Perms(profiles),
            f \in Perms(curves), c \in Perms(configs) }

\* As get_profile, but a binding to a profile that does not exist is not
\* resolved.
get_profile_bound_only(cm, uuid) ==
    IF uuid \in DOMAIN cm.gpu_datas
    THEN IF cm.gpu_datas[uuid].profile \in DOMAIN cm.profile_datas
         THEN Some(cm.profile_datas[cm.gpu_datas[uuid].profile])
         ELSE None
    ELSE IF DEFAULT_PROFILE_NAME \in DOMAIN cm.profile_datas
         THEN Some(cm.profile_datas[DEFAULT_PROFILE_NAME])
         ELSE None

\* ConfigManager::get_profile; None is the ConfigError::Get result.
get_profile(cm, uuid) ==
    IF uuid \in DOMAIN cm.gpu_datas
    THEN IF cm.gpu_datas[uuid].profile \in DOMAIN cm.profile_datas
         THEN Some(cm.profile_datas[cm.gpu_datas[uuid].profile])
         ELSE IF DEFAULT_PROFILE_NAME \in DOMAIN cm.profile_datas
              THEN Some(cm.profile_datas[DEFAULT_PROFILE_NAME])
              ELSE None
    ELSE IF DEFAULT_PROFILE_NAME \in DOMAIN cm.profile_datas
         THEN Some(cm.profile_datas[DEFAULT_PROFILE_NAME])
         ELSE None

GetKinds ==
    {"GetFanMode", "GetFanCurve", "GetFanUpdateInterval", "GetConfig"}

\* ConfigManager::handle_get_message: the answer sent on the one-shot
\* channel (None when none is sent) and the error returned (None when Ok).
handle_get_message(cm, msg) ==
    LET profile == get_profile(cm, msg.uuid)
    IN  IF msg.kind \notin GetKinds
        THEN [reply |-> None, err |-> Some("Get")]
        ELSE IF ~IsSome(profile)
        THEN [reply |-> None, err |-> Some("Get")]
        ELSE IF msg.kind = "GetFanCurve"
        THEN [reply |-> Some([kind |-> "FanCurve", fan_curve |->
                 IF IsSome(Unwrap(profile).fan_curve)
                    /\ Unwrap(Unwrap(profile).fan_curve)
                         \in DOMAIN cm.fan_curve_datas
                 THEN Some(cm.fan_curve_datas[Unwrap(Unwrap(profile).fan_curve)])
                 ELSE None]),
              err |-> None]
        ELSE IF msg.kind = "GetFanMode"
        THEN [reply |-> Some([kind |-> "FanMode",
                              fan_mode |-> Unwrap(profile).fan_mode]),
              err |-> None]
        ELSE IF msg.kind = "GetFanUpdateInterval"
        THEN [reply |-> Some([kind |-> "FanUpdateInterval", interval |->
                                Some(Unwrap(profile).update_interval)]),
              err |-> None]
        ELSE [reply |-> Some([kind |-> "Config", config |->
                 IF IsSome(Unwrap(profile).config)
                    /\ Unwrap(Unwrap(profile).config) \in DOMAIN cm.config_datas
                 THEN Some(cm.config_datas[Unwrap(Unwrap(profile).config)])
                 ELSE None]),
              err |-> None]

\* As SetProfileField, but an existing profile is replaced by a fresh one
\* with the addressed field set.
SetProfileField_fresh(cm, name, field, value) ==
    [cm EXCEPT !.profile_datas =
        Put(@, name, [ProfileDataDefault EXCEPT ![field] = value])]

\* The profile a SetProfile* message leaves under its name: the addressed
\* field set on the existing profile, or on ProfileData::default().
SetProfileField(cm, name, field, value) ==
    IF name \in DOMAIN cm.profile_datas
    THEN [cm EXCEPT !.profile_datas =
            Put(@, name, [cm.profile_datas[name] EXCEPT ![field] = value])]
    ELSE [cm EXCEPT !.profile_datas =
            Put(@, name, [ProfileDataDefault EXCEPT ![field] = value])]

\* The guard at the head of each SetProfile* arm: the default profile is
\* not to be modified.
RejectsDefault_never(name) == FALSE

RejectsDefault(name) == name = DEFAULT_PROFILE_NAME

\* ConfigManager::hadle_set_message: the tables afterwards and the error
\* returned (None when Ok).
hadle_set_message(cm, msg) ==
    IF msg.kind = "SetProfileFanMode"
    THEN IF RejectsDefault(msg.profile)
         THEN [cm |-> cm, err |-> Some("Set")]
         ELSE [cm |-> SetProfileField(cm, msg.profile, "fan_mode", msg.mode),
               err |-> None]
    ELSE IF msg.kind = "SetProfileFanCurve"
    THEN IF RejectsDefault(msg.profile)
         THEN [cm |-> cm, err |-> Some("Set")]
         ELSE [cm |-> SetProfileField(cm, msg.profile, "fan_curve",
                                      msg.curve_name),
               err |-> None]
    ELSE IF msg.kind = "SetFanUpdateInterval"
    THEN IF RejectsDefault(msg.profile)
         THEN [cm |-> cm, err |-> Some("Set")]
         ELSE [cm |-> SetProfileField(cm, msg.profile, "update_interval",
                                      msg.update_intrerval),
               err |-> None]
    ELSE IF msg.kind = "SetProfileConfig"
    THEN IF RejectsDefault(msg.profile)
         THEN [cm |-> cm, err |-> Some("Set")]
         ELSE [cm |-> SetProfileField(cm, msg.profile, "config",
                                      msg.config_name),
               err |-> None]
    ELSE IF msg.kind = "SetFanCurve"
    THEN [cm |-> [cm EXCEPT !.fan_curve_datas =
                    Put(@, msg.curve_name, msg.curve)],
          err |-> None]
    ELSE IF msg.kind = "SetConfig"
    THEN [cm |-> [cm EXCEPT !.config_datas =
                    Put(@, msg.config_name, msg.config)],
          err |-> None]
    \* every other message, AssignProfile among them
    ELSE [cm |-> cm, err |-> Some("Set")]

\* ConfigManager::parse_message for every message but SaveConfig: the
\* tables afterwards, the answer sent and the error returned.
parse_message(cm, msg) ==
    IF msg.kind \in GetKinds
    THEN [cm |-> cm, reply |-> handle_get_message(cm, msg).reply,
          err |-> handle_get_message(cm, msg).err]
    ELSE [cm |-> hadle_set_message(cm, msg).cm, reply |-> None,
          err |-> hadle_set_message(cm, msg).err]

(***************************************************************************)
(* State of the Devices Manager, of the driver under it and of the clock.  *)
(* The Configuration Manager's actions leave it unchanged.                 *)
(***************************************************************************)
VARIABLES
    devices,                 \* uuid -> NvidiaDevice
    driver,                  \* uuid -> what NVML holds for the board
    fan_update_intervals,    \* uuid -> Duration (seconds)
    last_fan_updates,        \* uuid -> Instant (seconds)
    devicesOrder,            \* iteration order of the devices map
    lastUpdatesOrder,        \* iteration order of the last_fan_updates map
    next_fan_update_device,  \* local of run()
    next_fan_update_time,    \* local of run()
    sleepStart,              \* when the pending tokio::time::sleep was made
    now,                     \* the clock (seconds)
    dmPc,                    \* "running" or "exited"
    cancelled,               \* the CancellationToken
    dmResult,                \* the message handled last, answer and error
    dmHandled                \* number of messages handled

devVars ==
    << devices, driver, fan_update_intervals, last_fan_updates, devicesOrder,
       lastUpdatesOrder, next_fan_update_device, next_fan_update_time,
       sleepStart, now, dmPc, cancelled, dmResult, dmHandled >>

(***************************************************************************)
(* State of the channels between the actors, of the State Manager and of   *)
(* the D-Bus service.                                                      *)
(***************************************************************************)
VARIABLES
    dmQueue,     \* mpsc channel to the Devices Manager
    cmQueue,     \* mpsc channel to the Configuration Manager
    dbusQueue,   \* mpsc channel from the D-Bus service to the State Manager
    errQueue,    \* the error channel, drained by the State Manager
    dmReply,     \* one-shot channel of the pending Devices Manager query
    cmReply,     \* one-shot channel of the pending Configuration query
    dbusReply,   \* one-shot channel of the pending D-Bus service query
    dmWait,      \* the error the Devices Manager is sending, and its branch
    dbusWait,    \* the error the D-Bus service is sending, and what follows
    smPc,        \* position of the State Manager
    smUuids,     \* apply_settings: the devices still to configure
    smStep,      \* apply_settings: the setting being applied (1..4)
    smResult,    \* what the State Manager's last handler returned, and
                 \* whether run() logged its error
    dbusPc,      \* position of the D-Bus service
    dbusTodo,    \* initialize_service: the queries still to make
    dbusObjects, \* the object server: the interfaces registered, by device
    dbusName,    \* whether the connection owns SERVICE_NAME
    dbusResult,  \* what initialize_service returned, once it has
    dmLog        \* the setting messages the Devices Manager has handled

actVars ==
    << dmQueue, cmQueue, dbusQueue, errQueue, dmReply, cmReply, dbusReply,
       dmWait, dbusWait, smPc, smUuids, smStep, smResult, dbusPc,
       dbusTodo,
       dbusObjects, dbusName, dbusResult, dmLog >>

\* A one-shot channel: nothing sent yet, an answer sent, or the sender
\* dropped without sending.
OneshotEmpty == [st |-> "empty"]

OneshotSent(answer) == [st |-> "sent", answer |-> answer]

OneshotDropped == [st |-> "dropped"]

\* No State Manager and no D-Bus service: the state these variables keep
\* while one manager is studied alone.
ActIdle ==
    /\ dmQueue = << >>
    /\ cmQueue = << >>
    /\ dbusQueue = << >>
    /\ errQueue = << >>
    /\ dmReply = OneshotEmpty
    /\ cmReply = OneshotEmpty
    /\ dbusReply = OneshotEmpty
    /\ dmWait = None
    /\ dbusWait = None
    /\ smPc = "exited"
    /\ smUuids = << >>
    /\ smStep = 1
    /\ smResult = [handler |-> "none", err |-> None, logged |-> FALSE]
    /\ dbusPc = "exited"
    /\ dbusTodo = << >>
    /\ dbusObjects = {}
    /\ dbusName = FALSE
    /\ dbusResult = None
    /\ dmLog = << >>

\* No Devices Manager: the state these variables keep while the
\* Configuration Manager is studied alone.
DevIdle ==
    /\ devices = EmptyMap
    /\ driver = EmptyMap
    /\ fan_update_intervals = EmptyMap
    /\ last_fan_updates = EmptyMap
    /\ devicesOrder = << >>
    /\ lastUpdatesOrder = << >>
    /\ next_fan_update_device = ""
    /\ next_fan_update_time = 0
    /\ sleepStart = 0
    /\ now = 0
    /\ dmPc = "exited"
    /\ cancelled = FALSE
    /\ dmResult = [msg |-> [kind |-> "None"], reply |-> None, err |-> None]
    /\ dmHandled = 0

VARIABLES
    linear,      \* a LinearCurve (its BTreeMap), None once it has moved
    hysteresis,  \* a HysteresisCurve<LinearCurve>, None before from_curve
    curveResult, \* the call made last on the curve and what it returned
    curveCalls,  \* the get_speed calls made on the hysteresis curve:
                 \* << temp, speed >>
    curveOps     \* the number of changes made to the points of the curve

curveVars == << linear, hysteresis, curveResult, curveCalls, curveOps >>

\* No fan curve is studied: the state these variables keep meanwhile.
CurveIdle ==
    /\ linear = None
    /\ hysteresis = None
    /\ curveResult = [op |-> "none"]
    /\ curveCalls = << >>
    /\ curveOps = 0

VARIABLES
    nvDevice,    \* an NvidiaDevice studied on its own, None when there is none
    nvDriver,    \* what NVML holds for its board
    nvResult     \* the call made last on the device and what came of it

fanVars == << nvDevice, nvDriver, nvResult >>

\* No device is studied on its own: the state these variables keep.
FanIdle ==
    /\ nvDevice = None
    /\ nvDriver = None
    /\ nvResult = [op |-> "none"]

(***************************************************************************)
(* State of the Configuration Manager.                                     *)
(***************************************************************************)
VARIABLES
    cfgFile,          \* the file at config_path
    cmPc,             \* "new", "running" or "panicked"
    gpu_datas,        \* uuid -> GpuData
    profile_datas,    \* name -> ProfileData
    fan_curve_datas,  \* name -> FanCurveInfo
    config_datas,     \* name -> GpuConfig
    cmResult,         \* the message handled last, its answer and its error
    cmSaveAge         \* 0 until the first SaveConfig, then 1 + the number
                      \* of messages handled since

cfgVars ==
    << cfgFile, cmPc, gpu_datas, profile_datas, fan_curve_datas,
       config_datas, cmResult, cmSaveAge >>

\* The four tables as one record
CM ==
    [gpu_datas |-> gpu_datas, profile_datas |-> profile_datas,
     fan_curve_datas |-> fan_curve_datas, config_datas |-> config_datas]

SetTables(cm) ==
    /\ gpu_datas' = cm.gpu_datas
    /\ profile_datas' = cm.profile_datas
    /\ fan_curve_datas' = cm.fan_curve_datas
    /\ config_datas' = cm.config_datas

\* The four tables as ConfigManager::new leaves them.
SetTablesInit ==
    /\ gpu_datas = NewConfigManager.gpu_datas
    /\ profile_datas = NewConfigManager.profile_datas
    /\ fan_curve_datas = NewConfigManager.fan_curve_datas
    /\ config_datas = NewConfigManager.config_datas

InitCfg ==
    /\ cfgFile \in InitialFiles
    /\ cmPc = "new"
    /\ SetTablesInit
    /\ cmResult = [msg |-> [kind |-> "None"], reply |-> None, err |-> None]
    /\ cmSaveAge = 0
    /\ DevIdle
    /\ ActIdle
    /\ CurveIdle
    /\ FanIdle

\* ConfigManager::run up to its loop: the startup load.
CfgStartup ==
    /\ cmPc = "new"
    /\ LET r == parse_config_file(CM, cfgFile)
       IN  /\ SetTables(r.cm)
           /\ cmPc' = IF r.panicked THEN "panicked" ELSE "running"
           /\ cmResult' = [msg |-> [kind |-> "Startup"], reply |-> None,
                           err |-> r.err]
    /\ UNCHANGED << cfgFile, cmSaveAge >>
    /\ UNCHANGED << devVars, actVars, curveVars, fanVars >>

CfgAccepts == cmPc = "running" /\ cmSaveAge <= MaxAfterSave

CfgHandle_autosave(msg) ==
    /\ CfgAccepts
    /\ LET r == parse_message(CM, msg)
       IN  /\ SetTables(r.cm)
           /\ cmResult' = [msg |-> msg, reply |-> r.reply, err |-> r.err]
           /\ cfgFile' \in save_config(r.cm)
    /\ cmSaveAge' = IF cmSaveAge = 0 THEN 0 ELSE cmSaveAge + 1
    /\ UNCHANGED cmPc
    /\ UNCHANGED << devVars, actVars, curveVars, fanVars >>

\* One message taken from the queue and handled by parse_message.
CfgHandle(msg) ==
    /\ CfgAccepts
    /\ LET r == parse_message(CM, msg)
       IN  /\ SetTables(r.cm)
           /\ cmResult' = [msg |-> msg, reply |-> r.reply, err |-> r.err]
    /\ cmSaveAge' = IF cmSaveAge = 0 THEN 0 ELSE cmSaveAge + 1
    /\ UNCHANGED << cfgFile, cmPc >>
    /\ UNCHANGED << devVars, actVars, curveVars, fanVars >>

CfgGet ==
    \E k \in GetKinds, u \in CfgUuids : CfgHandle([kind |-> k, uuid |-> u])

CfgAssignProfile ==
    \E u \in CfgUuids, p \in ProfileNames :
        CfgHandle([kind |-> "AssignProfile", uuid |-> u, profile |-> p])

CfgSetProfileFanMode ==
    \E p \in ProfileNames, m \in SetModes :
        CfgHandle([kind |-> "SetProfileFanMode", profile |-> p, mode |-> m])

CfgSetProfileFanCurve ==
    \E p \in ProfileNames, c \in {None} \cup {Some(n) : n \in CurveNames} :
        CfgHandle([kind |-> "SetProfileFanCurve", profile |-> p,
                   curve_name |-> c])

CfgSetFanUpdateInterval ==
    \E p \in ProfileNames, i \in SetIntervals :
        CfgHandle([kind |-> "SetFanUpdateInterval", profile |-> p,
                   update_intrerval |-> i])

CfgSetProfileConfig ==
    \E p \in ProfileNames, c \in {None} \cup {Some(n) : n \in ConfigNames} :
        CfgHandle([kind |-> "SetProfileConfig", profile |-> p,
                   config_name |-> c])

CfgSetFanCurve ==
    \E n \in CurveNames, c \in CurveInfos :
        CfgHandle([kind |-> "SetFanCurve", curve_name |-> n, curve |-> c])

CfgSetConfig ==
    \E n \in ConfigNames, c \in GpuConfigsSet :
        CfgHandle([kind |-> "SetConfig", config_name |-> n, config |-> c])

\* SaveConfig: File::create may fail (the file is left as it was) and the
\* write may fail part-way (the file is left truncated).
CfgSaveConfig ==
    /\ CfgAccepts
    /\ \/ /\ cfgFile' \in save_config(CM)
          /\ cmResult' = [msg |-> [kind |-> "SaveConfig"], reply |-> None,
                          err |-> None]
       \/ /\ cfgFile' = cfgFile
          /\ cmResult' = [msg |-> [kind |-> "SaveConfig"], reply |-> None,
                          err |-> Some("IO")]
       \/ /\ cfgFile' = MalformedFile
          /\ cmResult' = [msg |-> [kind |-> "SaveConfig"], reply |-> None,
                          err |-> Some("Json")]
    /\ cmSaveAge' = cmSaveAge + 1
    /\ UNCHANGED << cmPc, gpu_datas, profile_datas, fan_curve_datas,
                    config_datas >>
    /\ UNCHANGED << devVars, actVars, curveVars, fanVars >>

vars == << cfgVars, devVars, actVars, curveVars, fanVars >>

NextCfg ==
    \/ CfgStartup
    \/ CfgGet
    \/ CfgAssignProfile
    \/ CfgSetProfileFanMode
    \/ CfgSetProfileFanCurve
    \/ CfgSetFanUpdateInterval
    \/ CfgSetProfileConfig
    \/ CfgSetFanCurve
    \/ CfgSetConfig
    \/ CfgSaveConfig

SpecCfg == InitCfg /\ [][NextCfg]_vars

(***************************************************************************)
(* Properties of the Configuration Manager (SpecCfg).                      *)
(***************************************************************************)
SetProfileKinds ==
    {"SetProfileFanMode", "SetProfileFanCurve", "SetFanUpdateInterval",
     "SetProfileConfig"}

\* The message handled last is a SetProfile* message addressed to the
\* default profile.
SetOnDefault ==
    /\ cmResult.msg.kind \in SetProfileKinds
    /\ cmResult.msg.profile = DEFAULT_PROFILE_NAME

DefaultProfileProtected ==
    /\ [](cmPc = "running" =>
            /\ DEFAULT_PROFILE_NAME \in DOMAIN profile_datas
            /\ profile_datas[DEFAULT_PROFILE_NAME] = ProfileDataDefault
            /\ SetOnDefault => cmResult.err = Some("Set"))
    /\ [][SetOnDefault' => CM' = CM]_vars

\* C4 witness: SetProfileFanMode("default", Manual(40)) was handled and
\* returned the Set error.
DefaultProfileProtectedWitness ==
    /\ cmPc = "running"
    /\ cmResult.msg = [kind |-> "SetProfileFanMode",
                       profile |-> DEFAULT_PROFILE_NAME,
                       mode |-> FanManual(40)]
    /\ cmResult.err = Some("Set")
    /\ profile_datas[DEFAULT_PROFILE_NAME] = ProfileDataDefault

\* C5 (manual clamp), as claimed: every Manual(p) held in the profile table
\* has p in 0..100, and after SetProfileFanMode(profile, Manual(250)) the
\* profile stores Manual(100) and GetFanMode for a device bound to it
\* answers Manual(100).
ManualClamp ==
    cmPc = "running" =>
        /\ \A n \in DOMAIN profile_datas :
              profile_datas[n].fan_mode.kind = "Manual" =>
                  profile_datas[n].fan_mode.speed \in 0..100
        /\ \A u \in CfgUuids :
              LET r == handle_get_message(CM, [kind |-> "GetFanMode",
                                               uuid |-> u])
              IN  IsSome(r.reply) /\ Unwrap(r.reply).fan_mode.kind = "Manual"
                    => Unwrap(r.reply).fan_mode.speed \in 0..100
        /\ (/\ cmResult.msg.kind = "SetProfileFanMode"
            /\ cmResult.msg.mode = FanManual(250)
            /\ cmResult.err = None)
              => profile_datas[cmResult.msg.profile].fan_mode = FanManual(100)

\* C6 (AssignProfile), as claimed: AssignProfile(d, p) raises no error and
\* leaves d bound to p.
AssignProfileBinds ==
    (cmPc = "running" /\ cmResult.msg.kind = "AssignProfile") =>
        /\ cmResult.err = None
        /\ cmResult.msg.uuid \in DOMAIN gpu_datas
        /\ gpu_datas[cmResult.msg.uuid].profile = cmResult.msg.profile

\* C7 (save/load round trip), as claimed: after a SaveConfig that returned
\* Ok, a fresh manager loading the written file holds the same four tables.
SaveLoadRoundTrip ==
    (cmResult.msg.kind = "SaveConfig" /\ cmResult.err = None) =>
        LET r == parse_config_file(NewConfigManager, cfgFile)
        IN  ~r.panicked /\ r.err = None /\ r.cm = CM

(***************************************************************************)
(* Fan curves: fan_curve/linear_curve.rs and fan_curve/hysteresis_curve.rs *)
(***************************************************************************)
(***************************************************************************)
(* f32 arithmetic as linear_interpolation uses it.  A value is finite      *)
(* (m * 2^e with m odd, or zero), infinite (m is the sign) or NaN.         *)
(* Results are rounded to a 24 bit significand, to nearest, ties to even.  *)
(* The values met here stay far from the exponent limits of the format;    *)
(* the sign of a zero is not kept (a difference of equal values is +0).    *)
(***************************************************************************)
F32Bits == 24

Abs(n) == IF n < 0 THEN 0 - n ELSE n

Sign(n) == IF n < 0 THEN 0 - 1 ELSE 1

\* The number of bits of n >= 0.
RECURSIVE BitLen(_)
BitLen(n) == IF n = 0 THEN 0 ELSE 1 + BitLen(n \div 2)

F32NaN == [cls |-> "nan", m |-> 0, e |-> 0]

F32Inf(sign) == [cls |-> "inf", m |-> sign, e |-> 0]

\* The finite value m * 2^e, m already of at most 24 bits.
RECURSIVE F32Fin(_, _)
F32Fin(m, e) ==
    IF m = 0 THEN [cls |-> "fin", m |-> 0, e |-> 0]
    ELSE IF m % 2 = 0 THEN F32Fin(m \div 2, e + 1)
    ELSE [cls |-> "fin", m |-> m, e |-> e]

F32Zero == F32Fin(0, 0)

\* sign * n * 2^e (n >= 0) rounded to the format.
F32Round(sign0, n0, e0) ==
    LET Cut(sign, n, e, k) ==
            IF k <= 0 THEN F32Fin(sign * n, e)
            ELSE CHOOSE v \in
                     {F32Fin(sign * (IF r > half \/ (r = half /\ q % 2 = 1)
                                     THEN q + 1 ELSE q), e + k) :
                         q \in {n \div (2 ^ k)}, r \in {n % (2 ^ k)},
                         half \in {2 ^ (k - 1)}} : TRUE
        Rounded(sign, n, e) ==
            CHOOSE v \in {Cut(sign, n, e, k) :
                             k \in {BitLen(n) - F32Bits}} : TRUE
    IN  CHOOSE v \in {Rounded(sign, n, e) :
                         sign \in {sign0}, n \in {n0}, e \in {e0}} : TRUE

\* sign * (n + f) * 2^e with 0 < f < 1 when sticky, f = 0 otherwise,
\* rounded to the format; n has at least 26 bits when sticky.
F32RoundSticky(sign, n, sticky, e) ==
    F32Round(sign, 2 * n + (IF sticky THEN 1 ELSE 0), e - 1)

\* `n as f32` for an i32 or a u8.
F32FromInt(n) == F32Round(Sign(n), Abs(n), 0)

F32Neg(a) == [a EXCEPT !.m = 0 - a.m]

\* a + b
F32Add(lhs, rhs) ==
    LET Total(big, mB, eB, small, mS, sticky) ==
            IF Sign(big.m) = Sign(small.m)
            THEN F32RoundSticky(Sign(big.m), mB + mS, sticky, eB)
            ELSE IF sticky
            THEN F32RoundSticky(Sign(big.m), mB - mS - 1, TRUE, eB)
            ELSE F32Round(Sign(big.m) * Sign(mB - mS), Abs(mB - mS), eB)
        Shifted(big, mB, eB, small, sh) ==
            CHOOSE r \in
                {Total(big, mB, eB, small, mS, sticky) :
                    mS \in {IF sh <= 0 THEN Abs(small.m) * (2 ^ (0 - sh))
                            ELSE IF sh >= 31 THEN 0
                            ELSE Abs(small.m) \div (2 ^ sh)},
                    sticky \in {sh > 0 /\ (sh >= 31
                                           \/ Abs(small.m) % (2 ^ sh) # 0)}} :
                TRUE
        Scaled(big, small, up) ==
            CHOOSE r \in
                {CHOOSE t \in {Shifted(big, mB, eB, small, sh) :
                                  sh \in {eB - small.e}} : TRUE :
                    mB \in {Abs(big.m) * (2 ^ up)}, eB \in {big.e - up}} :
                TRUE
        Ordered(big, small) ==
            CHOOSE r \in {Scaled(big, small, up) :
                             up \in {27 - BitLen(Abs(big.m))}} : TRUE
        Sum(a, b) ==
            IF a.cls = "nan" \/ b.cls = "nan" THEN F32NaN
            ELSE IF a.cls = "inf"
            THEN IF b.cls = "inf" /\ b.m # a.m THEN F32NaN ELSE a
            ELSE IF b.cls = "inf" THEN b
            ELSE IF a.m = 0 THEN b
            ELSE IF b.m = 0 THEN a
            ELSE CHOOSE r \in
                     {IF ta >= tb THEN Ordered(a, b) ELSE Ordered(b, a) :
                         ta \in {a.e + BitLen(Abs(a.m))},
                         tb \in {b.e + BitLen(Abs(b.m))}} : TRUE
    IN  CHOOSE r \in {Sum(a, b) : a \in {lhs}, b \in {rhs}} : TRUE

\* a - b
F32Sub(a, b) == F32Add(a, F32Neg(b))

\* a * b
F32Mul(lhs, rhs) ==
    LET Normal(sign, e, hi, low24, g) ==
            IF hi < 64 THEN F32Round(sign, hi * (2 ^ 24) + low24, e)
            ELSE F32RoundSticky(sign,
                                hi * (2 ^ g) + low24 \div (2 ^ (24 - g)),
                                low24 % (2 ^ (24 - g)) # 0,
                                e + 24 - g)
        High(sign, e, hi, low24) ==
            CHOOSE v \in {Normal(sign, e, hi, low24, g) :
                             g \in {26 - BitLen(hi)}} : TRUE
        Lower(sign, e, a1, b1, mid, low) ==
            CHOOSE v \in
                {High(sign, e, hi, low24) :
                    hi \in {a1 * b1 + mid \div 4096 + low \div (2 ^ 24)},
                    low24 \in {low % (2 ^ 24)}} : TRUE
        Middle(sign, e, a1, a0, b1, b0, mid) ==
            CHOOSE v \in
                {Lower(sign, e, a1, b1, mid, low) :
                    low \in {a0 * b0 + (mid % 4096) * 4096}} : TRUE
        Split(sign, e, a1, a0, b1, b0) ==
            CHOOSE v \in {Middle(sign, e, a1, a0, b1, b0, mid) :
                             mid \in {a1 * b0 + a0 * b1}} : TRUE
        Product(a, b) ==
            IF a.cls = "nan" \/ b.cls = "nan" THEN F32NaN
            ELSE IF a.cls = "inf" \/ b.cls = "inf"
            THEN IF a.m = 0 \/ b.m = 0 THEN F32NaN
                 ELSE F32Inf(Sign(a.m) * Sign(b.m))
            ELSE IF a.m = 0 \/ b.m = 0 THEN F32Zero
            ELSE CHOOSE v \in
                     {Split(sign, e, a1, a0, b1, b0) :
                         sign \in {Sign(a.m) * Sign(b.m)}, e \in {a.e + b.e},
                         a1 \in {Abs(a.m) \div 4096},
                         a0 \in {Abs(a.m) % 4096},
                         b1 \in {Abs(b.m) \div 4096},
                         b0 \in {Abs(b.m) % 4096}} : TRUE
    IN  CHOOSE v \in {Product(a, b) : a \in {lhs}, b \in {rhs}} : TRUE

\* The quotient n / d (0 < d, d odd, d does not divide n) by long
\* division, carried on until the quotient q has 24 bits: << q, rest,
\* number of binary places >>.
RECURSIVE LongDivision(_, _, _, _)
LongDivision(q, rest, d, places) ==
    IF q >= 2 ^ (F32Bits - 1) THEN << q, rest, places >>
    ELSE IF 2 * rest >= d
    THEN LongDivision(2 * q + 1, 2 * rest - d, d, places + 1)
    ELSE LongDivision(2 * q, 2 * rest, d, places + 1)

\* a / b
F32Div(lhs, rhs) ==
    LET Divided(sign, n, d, e) ==
            IF n % d = 0 THEN F32Fin(sign * (n \div d), e)
            ELSE CHOOSE v \in
                     {F32Fin(sign * (IF 2 * r[2] > d THEN r[1] + 1
                                     ELSE r[1]), e - r[3]) :
                         r \in {LongDivision(n \div d, n % d, d, 0)}} : TRUE
        Quotient(a, b) ==
            IF a.cls = "nan" \/ b.cls = "nan" THEN F32NaN
            ELSE IF a.cls = "inf"
            THEN IF b.cls = "inf" THEN F32NaN
                 ELSE F32Inf(a.m * (IF b.m < 0 THEN 0 - 1 ELSE 1))
            ELSE IF b.cls = "inf" THEN F32Zero
            ELSE IF b.m = 0
            THEN IF a.m = 0 THEN F32NaN ELSE F32Inf(Sign(a.m))
            ELSE IF a.m = 0 THEN F32Zero
            ELSE CHOOSE v \in
                     {Divided(sign, n, d, e) :
                         sign \in {Sign(a.m) * Sign(b.m)}, n \in {Abs(a.m)},
                         d \in {Abs(b.m)}, e \in {a.e - b.e}} : TRUE
    IN  CHOOSE v \in {Quotient(a, b) : a \in {lhs}, b \in {rhs}} : TRUE

\* `v as u8`: towards zero, saturating, NaN gives 0.
F32ToU8(v0) ==
    LET Truncated(v) ==
        IF v.cls = "nan" THEN 0
        ELSE IF v.cls = "inf" THEN IF v.m > 0 THEN 255 ELSE 0
        ELSE IF v.m <= 0 THEN 0
        ELSE IF v.e >= 0
        THEN IF v.e + BitLen(v.m) > 8 THEN 255 ELSE v.m * (2 ^ v.e)
        ELSE IF 0 - v.e >= 31 THEN 0
        ELSE LET n == v.m \div (2 ^ (0 - v.e))
             IN  IF n > 255 THEN 255 ELSE n
    IN  CHOOSE r \in {Truncated(v) : v \in {v0}} : TRUE

(***************************************************************************)
(* LinearCurve: its points are the BTreeMap, a function from temperatures  *)
(* to speeds.                                                              *)
(***************************************************************************)
\* u8::clamp(0, 100)
ClampU8(speed) == IF speed > 100 THEN 100 ELSE speed

\* linear_interpolation(pre, suc, temp)
linear_interpolation(pre, suc, temp) ==
    LET Line(p, m, b) == F32ToU8(F32Add(F32Mul(m, p), b))
        Through(p, x1, y1, x2, y2) ==
            CHOOSE v \in
                {Line(p, m, b) :
                    m \in {F32Div(F32Sub(y1, y2), F32Sub(x1, x2))},
                    b \in {F32Div(F32Sub(F32Mul(x1, y2), F32Mul(x2, y1)),
                                  F32Sub(x1, x2))}} : TRUE
    IN  CHOOSE v \in
            {Through(p, x1, y1, x2, y2) :
                p \in {F32FromInt(temp)},
                x1 \in {F32FromInt(pre[1])}, y1 \in {F32FromInt(pre[2])},
                x2 \in {F32FromInt(suc[1])}, y2 \in {F32FromInt(suc[2])}} :
            TRUE

SetMax(S) == CHOOSE x \in S : \A y \in S : y <= x

SetMin(S) == CHOOSE x \in S : \A y \in S : x <= y

\* As LinearCurve_get_speed, but a curve without points gives 0.
LinearCurve_get_speed_cold(curve, temp) ==
    IF temp \in DOMAIN curve THEN curve[temp]
    ELSE LET before == {t \in DOMAIN curve : t < temp}
             after == {t \in DOMAIN curve : t >= temp}
             preceding == << SetMax(before), curve[SetMax(before)] >>
             succeeding == << SetMin(after), curve[SetMin(after)] >>
         IN  IF before # {}
             THEN IF after # {}
                  THEN linear_interpolation(preceding, succeeding, temp)
                  ELSE ClampU8(preceding[2])
             ELSE IF after # {} THEN ClampU8(succeeding[2])
             ELSE 0

\* LinearCurve::get_speed
LinearCurve_get_speed(curve, temp) ==
    IF temp \in DOMAIN curve THEN curve[temp]
    ELSE LET before == {t \in DOMAIN curve : t < temp}
             after == {t \in DOMAIN curve : t >= temp}
             preceding == << SetMax(before), curve[SetMax(before)] >>
             succeeding == << SetMin(after), curve[SetMin(after)] >>
         IN  IF before # {}
             THEN IF after # {}
                  THEN linear_interpolation(preceding, succeeding, temp)
                  ELSE ClampU8(preceding[2])
             ELSE IF after # {} THEN ClampU8(succeeding[2])
             ELSE 100

\* LinearCurve::add_point
LinearCurve_add_point(curve, point) == Put(curve, point[1], ClampU8(point[2]))

\* LinearCurve::update_point
LinearCurve_update_point(curve, point) ==
    Put(curve, point[1], ClampU8(point[2]))

\* LinearCurve::remove_point
LinearCurve_remove_point(curve, temp) ==
    [t \in DOMAIN curve \ {temp} |-> curve[t]]

\* LinearCurve::new: the points are added one after the other.
RECURSIVE LinearCurve_from_points(_)
LinearCurve_from_points(list) ==
    IF list = << >> THEN EmptyMap
    ELSE LinearCurve_add_point(
             LinearCurve_from_points(SubSeq(list, 1, Len(list) - 1)),
             list[Len(list)])

(***************************************************************************)
(* HysteresisCurve<LinearCurve>.  Temperatures are such that the i32       *)
(* difference of two of them does not overflow.                            *)
(***************************************************************************)
\* HysteresisCurve::from_curve
HysteresisCurve_from_curve(curve, lower_threshold, upper_threshold) ==
    [curve |-> curve, last_update |-> None,
     lower_threshold |-> lower_threshold,
     upper_threshold |-> upper_threshold]

\* HysteresisCurve::new
HysteresisCurve_new(list, lower_threshold, upper_threshold) ==
    HysteresisCurve_from_curve(LinearCurve_from_points(list),
                               lower_threshold, upper_threshold)

\* HysteresisCurve::update: the curve afterwards and the speed returned.
HysteresisCurve_update(h, temp) ==
    CHOOSE r \in {[h |-> [h EXCEPT !.last_update = Some(<< temp, speed >>)],
                    speed |-> speed] :
                       speed \in {LinearCurve_get_speed(h.curve, temp)}} : TRUE

HysteresisThreshold_swapped(h, delta) ==
    IF delta > 0 THEN h.lower_threshold ELSE h.upper_threshold

HysteresisTriggers_strict(delta, threshold) == Abs(delta) > threshold

\* The threshold get_speed compares a change of delta degrees with.
HysteresisThreshold(h, delta) ==
    IF delta > 0 THEN h.upper_threshold ELSE h.lower_threshold

\* The comparison that makes get_speed update.
HysteresisTriggers(delta, threshold) == Abs(delta) >= threshold

\* HysteresisCurve::get_speed
HysteresisCurve_get_speed(h, temp) ==
    IF IsSome(h.last_update)
    THEN LET last == Unwrap(h.last_update)
             delta == temp - last[1]
             threshold == HysteresisThreshold(h, delta)
         IN  IF HysteresisTriggers(delta, threshold)
             THEN HysteresisCurve_update(h, temp)
             ELSE [h |-> h, speed |-> last[2]]
    ELSE HysteresisCurve_update(h, temp)

(***************************************************************************)
(* The Devices Manager: devices_manager.rs and gpu_device/nvidia_device.rs *)
(***************************************************************************)
DEFAULT_DATA_UPDATE_INTERVAL == 1

\* Boards found by discover_nvidia_gpus, and the uuids messages may name.
DevUuids == {"GPU-a", "GPU-b"}

MsgUuids == {"GPU-a", "GPU-x"}

\* The boards whose driver may fail.
FaultyUuids == {"GPU-a"}

\* Fan modes, intervals and the configuration sent to the manager.
DevModes == {FanAuto, FanManual(40)}

DevIntervals == {1}

DevConfigs == {GpuConfigA}

\* The longest the clock runs, and the number of messages handled.
MaxTime == 5

MaxMessages == 2

\* The slack the freshness bound allows for a synchronous handler.
Epsilon == 1

\* The fan curve NvidiaDevice::new installs, and the one the State Manager
\* builds from a FanCurveInfo.
\* Both are held as Box<dyn FanCurve>: the kind stands for the vtable.
LinearCurve_new(points) ==
    [kind |-> "Linear", curve |-> LinearCurve_from_points(points)]

\* As HysteresisCurve_from_info, but a threshold that is absent counts as 3.
HysteresisCurve_from_info_deadband(info) ==
    [kind |-> "Hysteresis",
     curve |-> HysteresisCurve_new(
                   info.points,
                   IF IsSome(info.lower_threshold)
                   THEN Unwrap(info.lower_threshold) ELSE 3,
                   IF IsSome(info.upper_threshold)
                   THEN Unwrap(info.upper_threshold) ELSE 3)]

\* HysteresisCurve::from_info: a threshold that is absent counts as 0.
HysteresisCurve_from_info(info) ==
    [kind |-> "Hysteresis",
     curve |-> HysteresisCurve_new(
                   info.points,
                   IF IsSome(info.lower_threshold)
                   THEN Unwrap(info.lower_threshold) ELSE 0,
                   IF IsSome(info.upper_threshold)
                   THEN Unwrap(info.upper_threshold) ELSE 0)]

\* FanCurve::add_point and FanCurve::get_speed through the box: the curve
\* afterwards (a hysteresis curve remembers its last update) and the
\* speed returned.
FanCurve_add_point(fan_curve, point) ==
    IF fan_curve.kind = "Linear"
    THEN [fan_curve EXCEPT !.curve = LinearCurve_add_point(@, point)]
    ELSE [fan_curve EXCEPT !.curve.curve = LinearCurve_add_point(@, point)]

FanCurve_get_speed(fan_curve, temp) ==
    IF fan_curve.kind = "Linear"
    THEN [fan_curve |-> fan_curve,
          speed |-> LinearCurve_get_speed(fan_curve.curve, temp)]
    ELSE CHOOSE s \in {[fan_curve |-> [fan_curve EXCEPT !.curve = r.h],
                         speed |-> r.speed] :
                            r \in {HysteresisCurve_get_speed(fan_curve.curve,
                                                             temp)}} : TRUE

\* What NVML holds for one board.  healthy = FALSE: every call on the
\* board returns an NvmlError.  temperature is what the GPU sensor reads,
\* None while reading it fails; fan_speed is the speed last written.
PolicyAuto == "TemperatureContinousSw"

PolicyManual == "Manual"

\* The temperature of a board while the managers are studied.
InitialTemperature == 50

\* The temperature update_fan takes when the sensor cannot be read.
SAFE_TEMPERATURE == 110

DriverDefault(policy) ==
    [policy |-> policy, fan_speed |-> None, core_clock_offset |-> 0,
     mem_clock_offset |-> 0, power_limit |-> None, healthy |-> TRUE,
     temperature |-> Some(InitialTemperature)]

\* The curve NvidiaDevice::new installs: no points, then the point (0, 100).
DefaultFanCurve_half == FanCurve_add_point(LinearCurve_new(<< >>), <<0, 50>>)

DefaultFanCurve == FanCurve_add_point(LinearCurve_new(<< >>), <<0, 100>>)

\* NvidiaDevice::new: the fan mode is read back from the driver's policy.
NvidiaDevice_new(policy) ==
    [fan_mode |-> IF policy = PolicyAuto THEN FanAuto ELSE FanCurveMode,
     fan_curve |-> DefaultFanCurve,
     gpu_data_update_interval |-> DEFAULT_DATA_UPDATE_INTERVAL,
     gpu_data_last_update |-> 0]

\* Results of the device operations: the device, the driver, the error.
DevOk(dev, drv) == [dev |-> dev, drv |-> drv, err |-> None]

DevErr(dev, drv, e) == [dev |-> dev, drv |-> drv, err |-> Some(e)]

\* As set_fan_curve, but the device is switched to curve mode as well.
set_fan_curve_switching(dev, fan_curve) ==
    [dev EXCEPT !.fan_curve = fan_curve, !.fan_mode = FanCurveMode]

\* NvidiaDevice::set_fan_curve: the curve object is replaced, nothing else.
set_fan_curve(dev, fan_curve) == [dev EXCEPT !.fan_curve = fan_curve]

set_fan_mode_recorded(dev, drv, fan_mode) ==
    IF ~drv.healthy
    THEN DevErr([dev EXCEPT !.fan_mode = fan_mode], drv, "Device")
    ELSE DevOk([dev EXCEPT !.fan_mode = fan_mode],
               [drv EXCEPT !.policy = IF fan_mode = FanAuto THEN PolicyAuto
                                      ELSE PolicyManual])

\* The policy is written first; the mode is recorded only when the write
\* succeeded.
set_fan_mode(dev, drv, fan_mode) ==
    IF ~drv.healthy THEN DevErr(dev, drv, "Device")
    ELSE DevOk([dev EXCEPT !.fan_mode = fan_mode],
               [drv EXCEPT !.policy = IF fan_mode = FanAuto THEN PolicyAuto
                                      ELSE PolicyManual])

FanTemperature_unsafe(drv) ==
    IF IsSome(drv.temperature) THEN Unwrap(drv.temperature) ELSE 0

\* The temperature update_fan evaluates the curve at.
FanTemperature(drv) ==
    IF IsSome(drv.temperature) THEN Unwrap(drv.temperature)
    ELSE SAFE_TEMPERATURE

\* The speed update_fan writes for the recorded mode, None when it writes
\* nothing, and the fan curve afterwards.
FanWrite(dev, drv) ==
    IF dev.fan_mode.kind = "Curve"
    THEN CHOOSE w \in {[speed |-> Some(r.speed), fan_curve |-> r.fan_curve] :
                        r \in {FanCurve_get_speed(dev.fan_curve,
                                                  FanTemperature(drv))}} : TRUE
    ELSE IF dev.fan_mode.kind = "Manual"
    THEN [speed |-> Some(dev.fan_mode.speed), fan_curve |-> dev.fan_curve]
    ELSE [speed |-> None, fan_curve |-> dev.fan_curve]

\* NvidiaDevice::update_fan.  Curve: the speed the curve gives for the
\* temperature is written; Manual: the stored speed; Auto: nothing.
update_fan(dev, drv) ==
    IF ~drv.healthy THEN DevErr(dev, drv, "Device")
    ELSE CHOOSE r \in {DevOk([dev EXCEPT !.fan_curve = w.fan_curve],
                             IF IsSome(w.speed)
                             THEN [drv EXCEPT !.fan_speed = w.speed]
                             ELSE drv) : w \in {FanWrite(dev, drv)}} : TRUE

\* As apply_gpu_config, but a clock offset is added to the offset the
\* driver holds.
apply_gpu_config_relative(dev, drv, gpu_config) ==
    IF ~drv.healthy THEN DevErr(dev, drv, "Device")
    ELSE LET pl == gpu_config.power_limit
             co == gpu_config.nvidia_config.core_clock_offset
             mo == gpu_config.nvidia_config.mem_clock_offset
             d1 == IF IsSome(pl) THEN [drv EXCEPT !.power_limit = pl]
                   ELSE drv
             d2 == IF IsSome(co)
                   THEN [d1 EXCEPT !.core_clock_offset = @ + Unwrap(co)]
                   ELSE d1
             d3 == IF IsSome(mo)
                   THEN [d2 EXCEPT !.mem_clock_offset = @ + Unwrap(mo)]
                   ELSE d2
         IN  DevOk(dev, d3)

\* Only the fields that are Some reach the driver.
apply_gpu_config(dev, drv, gpu_config) ==
    IF ~drv.healthy THEN DevErr(dev, drv, "Device")
    ELSE LET pl == gpu_config.power_limit
             co == gpu_config.nvidia_config.core_clock_offset
             mo == gpu_config.nvidia_config.mem_clock_offset
             d1 == IF IsSome(pl) THEN [drv EXCEPT !.power_limit = pl]
                   ELSE drv
             d2 == IF IsSome(co)
                   THEN [d1 EXCEPT !.core_clock_offset = Unwrap(co)]
                   ELSE d1
             d3 == IF IsSome(mo)
                   THEN [d2 EXCEPT !.mem_clock_offset = Unwrap(mo)]
                   ELSE d2
         IN  DevOk(dev, d3)

\* The NVML calls apply_gpu_config makes, in the order it makes them.
NvmlConfigCalls ==
    << "device_by_uuid", "set_power_management_limit",
       "set_gpc_clock_vf_offset", "set_mem_clock_vf_offset" >>

\* One `if let Some(..) = field { device.set_..(..)?; }` of
\* apply_gpu_config: after an error nothing more is done; an absent field
\* makes no call; a present field makes the call, which the driver either
\* refuses (the `?` returns the error) or carries out.
NvmlSet(s, field, call, after, refused) ==
    IF s.err # None \/ ~IsSome(field) THEN s
    ELSE IF call \in refused
    THEN [s EXCEPT !.calls = Append(@, call), !.err = Some("Device")]
    ELSE [s EXCEPT !.calls = Append(@, call), !.drv = after]

\* NvidiaDevice::apply_gpu_config with a driver that refuses the calls in
\* `refused`: the setter calls made are recorded in `calls`.
NvidiaDevice_apply_gpu_config(dev, drv, gpu_config, refused) ==
    IF "device_by_uuid" \in refused
    THEN [dev |-> dev, drv |-> drv, err |-> Some("Device"), calls |-> << >>]
    ELSE LET pl == gpu_config.power_limit
             co == gpu_config.nvidia_config.core_clock_offset
             mo == gpu_config.nvidia_config.mem_clock_offset
             s0 == [dev |-> dev, drv |-> drv, err |-> None, calls |-> << >>]
             s1 == NvmlSet(s0, pl, "set_power_management_limit",
                           [s0.drv EXCEPT !.power_limit = pl], refused)
             s2 == NvmlSet(s1, co, "set_gpc_clock_vf_offset",
                           [s1.drv EXCEPT !.core_clock_offset = Unwrap(co)],
                           refused)
         IN  NvmlSet(s2, mo, "set_mem_clock_vf_offset",
                     [s2.drv EXCEPT !.mem_clock_offset = Unwrap(mo)],
                     refused)

\* GpuConfig::default(): derived, every field None.
GpuConfigDefault ==
    [nvidia_config |-> [core_clock_offset |-> None,
                        mem_clock_offset |-> None],
     power_limit |-> None]

\* get_data / get_vendor_data: udpate_data samples the driver when the data
\* update interval has elapsed, else the cached sample is returned.
get_data(dev, drv, t) ==
    IF t - dev.gpu_data_last_update >= dev.gpu_data_update_interval
    THEN IF ~drv.healthy THEN DevErr(dev, drv, "Device")
         ELSE DevOk([dev EXCEPT !.gpu_data_last_update = t], drv)
    ELSE DevOk(dev, drv)

(***************************************************************************)
(* The sample of a board read call by call: every NVML read has its own    *)
(* outcome, "ok", "unsupported" (NvmlError::NotSupported) or "error" (any  *)
(* other NvmlError).  Of the reads of get_gpu_data one that is made under  *)
(* `?` and one whose error is replaced by 0 are kept, of the reads of      *)
(* get_gpu_vendor_data one, made through ok_support.                       *)
(***************************************************************************)
NvmlOutcomes == {"ok", "unsupported", "error"}

\* What the board reports at time t for a read that succeeds.
NvmlValue(t) == 40 + t

\* NvidiaDevice::ok_support: Ok(v) gives Ok(Some(v)), NotSupported gives
\* Ok(None), any other error is returned.
ok_support(outcome, value) ==
    IF outcome = "ok" THEN [value |-> Some(value), err |-> None]
    ELSE IF outcome = "unsupported" THEN [value |-> None, err |-> None]
    ELSE [value |-> None, err |-> Some("DeviceQuery")]

\* NvidiaDevice::get_gpu_data: utilization_rates is read first and a
\* failure of it leaves 0; power_usage is read under `?`.
get_gpu_data(outcome, t) ==
    LET core_usage == IF outcome["utilization_rates"] = "ok"
                      THEN NvmlValue(t) ELSE 0
    IN  IF outcome["power_usage"] = "ok"
        THEN [data |-> Some([power_usage |-> NvmlValue(t),
                             core_usage |-> core_usage]),
              err |-> None,
              calls |-> << "utilization_rates", "power_usage" >>]
        ELSE [data |-> None, err |-> Some("DeviceQuery"),
              calls |-> << "utilization_rates", "power_usage" >>]

\* NvidiaDevice::get_gpu_vendor_data
get_gpu_vendor_data(outcome, t) ==
    LET sm_freq == ok_support(outcome["clock_sm"], NvmlValue(t))
    IN  IF sm_freq.err = None
        THEN [data |-> Some([sm_freq |-> sm_freq.value]), err |-> None,
              calls |-> << "clock_sm" >>]
        ELSE [data |-> None, err |-> sm_freq.err, calls |-> << "clock_sm" >>]

\* As SampleDue, but a sample is due only after more than the interval.
SampleDue_late(dev, t) ==
    t - dev.gpu_data_last_update > dev.gpu_data_update_interval

\* The test of udpate_data: the update interval has elapsed.
SampleDue(dev, t) ==
    t - dev.gpu_data_last_update >= dev.gpu_data_update_interval

\* NvidiaDevice::udpate_data at time t: the device afterwards, the error
\* returned and the NVML calls made.  get_device is called before each of
\* the two reads; the general data is stored before the vendor data is
\* read, the time of the sample after both.
udpate_data(dev, outcome, t) ==
    IF ~SampleDue(dev, t) THEN [dev |-> dev, err |-> None, calls |-> << >>]
    ELSE IF outcome["device_by_uuid"] # "ok"
    THEN [dev |-> dev, err |-> Some("DeviceAcquisition"),
          calls |-> << "device_by_uuid" >>]
    ELSE LET g == get_gpu_data(outcome, t)
             v == get_gpu_vendor_data(outcome, t)
         IN  IF g.err # None
             THEN [dev |-> dev, err |-> g.err,
                   calls |-> << "device_by_uuid" >> \o g.calls]
             ELSE IF v.err # None
             THEN [dev |-> [dev EXCEPT !.gpu_data = Unwrap(g.data)],
                   err |-> v.err,
                   calls |-> << "device_by_uuid" >> \o g.calls
                                 \o << "device_by_uuid" >> \o v.calls]
             ELSE [dev |-> [dev EXCEPT !.gpu_data = Unwrap(g.data),
                                       !.gpu_vendor_data = Unwrap(v.data),
                                       !.gpu_data_last_update = t],
                   err |-> None,
                   calls |-> << "device_by_uuid" >> \o g.calls
                                 \o << "device_by_uuid" >> \o v.calls]

\* NvidiaDevice::get_data and get_vendor_data (`vendor` tells which):
\* udpate_data()?, then a clone of the stored sample.
NvidiaDevice_get_data(dev, vendor, outcome, t) ==
    LET r == udpate_data(dev, outcome, t)
    IN  [dev |-> r.dev, err |-> r.err, calls |-> r.calls,
         data |-> IF r.err # None THEN None
                  ELSE IF vendor THEN Some(r.dev.gpu_vendor_data)
                  ELSE Some(r.dev.gpu_data)]

\* NvidiaDevice::new for the sample fields: the info and the first sample
\* are read at time 0, the update interval is the default.
NvidiaDevice_sampled(outcome) ==
    LET g == get_gpu_data(outcome, 0)
        v == get_gpu_vendor_data(outcome, 0)
    IN  IF outcome["device_by_uuid"] # "ok" \/ g.err # None \/ v.err # None
        THEN None
        ELSE Some([gpu_info |-> [uuid |-> "GPU-a"],
                   gpu_vendor_info |-> [vbios |-> "vbios"],
                   gpu_data |-> Unwrap(g.data),
                   gpu_vendor_data |-> Unwrap(v.data),
                   gpu_data_update_interval |-> DEFAULT_DATA_UPDATE_INTERVAL,
                   gpu_data_last_update |-> 0])

\* The manager's fields as one record, and the result of a handler.
DmRes(dm, reply, err) == [dm |-> dm, reply |-> reply, err |-> err]

\* tx.send(answer): it fails when the requester dropped the receiver.
DmAnswer(dm, msg, answer) ==
    IF msg.rx_open THEN DmRes(dm, Some(answer), None)
    ELSE DmRes(dm, None, Some("TX"))

\* As DmDeviceStep, but the fan state the operation wrote goes to every
\* board.
DmDeviceStep_every(dm, uuid, r) ==
    [dm EXCEPT !.devices[uuid] = r.dev,
               !.driver = [u \in DOMAIN dm.driver |->
                              IF u = uuid THEN r.drv
                              ELSE [dm.driver[u] EXCEPT
                                       !.policy = r.drv.policy,
                                       !.fan_speed = r.drv.fan_speed]]]

\* The device operation's result is stored back: the device is borrowed
\* from the map and the driver call is made on its own board.
DmDeviceStep(dm, uuid, r) ==
    [dm EXCEPT !.devices[uuid] = r.dev, !.driver[uuid] = r.drv]

DmQueryKinds ==
    {"ListDevices", "GetDeviceInfo", "GetDeviceVendorInfo", "GetDeviceData",
     "GetDeviceVendorData"}

\* DevicesManager::parse_message (for a message that is Some).
dm_parse_message(dm, msg, t) ==
    IF msg.kind = "ListDevices"
    THEN DmAnswer(dm, msg, [kind |-> "DeviceList",
                            uuids |-> DOMAIN dm.devices])
    ELSE IF msg.kind = "SetDeviceFanUpdateInterval"
    THEN DmRes([dm EXCEPT !.fan_update_intervals =
                   Put(dm.fan_update_intervals, msg.uuid, msg.interval)],
               None, None)
    ELSE IF msg.uuid \notin DOMAIN dm.devices
    THEN DmRes(dm, None, Some("InvalidDevice"))
    ELSE LET dev == dm.devices[msg.uuid]
             drv == dm.driver[msg.uuid]
         IN
         IF msg.kind = "GetDeviceInfo"
         THEN DmAnswer(dm, msg, [kind |-> "DeviceInfo", uuid |-> msg.uuid])
         ELSE IF msg.kind = "GetDeviceVendorInfo"
         THEN DmAnswer(dm, msg, [kind |-> "DeviceVendorInfo",
                                 uuid |-> msg.uuid])
         ELSE IF msg.kind \in {"GetDeviceData", "GetDeviceVendorData"}
         THEN LET r == get_data(dev, drv, t)
              IN  DmAnswer(DmDeviceStep(dm, msg.uuid, r), msg,
                           [kind |-> IF msg.kind = "GetDeviceData"
                                     THEN "DeviceData"
                                     ELSE "DeviceVendorData",
                            data |-> IF r.err = None
                                     THEN Some(r.dev.gpu_data_last_update)
                                     ELSE None])
         ELSE IF msg.kind = "SetDeviceDataUpdateInterval"
         THEN DmRes([dm EXCEPT !.devices[msg.uuid].gpu_data_update_interval
                                  = msg.interval], None, None)
         ELSE IF msg.kind = "SetDeviceFanMode"
         THEN LET r == set_fan_mode(dev, drv, msg.fan_mode)
              IN  DmRes(DmDeviceStep(dm, msg.uuid, r), None, r.err)
         ELSE IF msg.kind = "SetDeviceFanCurve"
         THEN DmRes([dm EXCEPT !.devices[msg.uuid] =
                        set_fan_curve(dev, msg.fan_curve)], None, None)
         ELSE \* ApplyDeviceGpuConfig
              LET r == apply_gpu_config(dev, drv, msg.config)
              IN  DmRes(DmDeviceStep(dm, msg.uuid, r), None, r.err)

\* Stands for Duration::MAX: longer than every duration that occurs.
DurationMax == 2^30

\* DevicesManager::schedule_fan_update over the entries of last_fan_updates
\* taken in the order `order`, at time t: the first entry with the smallest
\* time to its next update.
RECURSIVE ScheduleFrom(_, _, _, _, _)
ScheduleFrom(dm, order, t, update_device, smallest_delta) ==
    IF order = << >>
    THEN [device |-> update_device, time |-> smallest_delta]
    ELSE LET uuid == Head(order)
             interval == dm.fan_update_intervals[uuid]
             elapsed == t - dm.last_fan_updates[uuid]
             delta == IF interval > elapsed THEN interval - elapsed ELSE 0
         IN  IF delta < smallest_delta
             THEN ScheduleFrom(dm, Tail(order), t, uuid, delta)
             ELSE ScheduleFrom(dm, Tail(order), t, update_device,
                               smallest_delta)

schedule_fan_update(dm, order, t) ==
    ScheduleFrom(dm, order, t, "", DurationMax)

\* DevicesManager::update_fans: the last update time moves only when the
\* device accepted the update.
update_fans(dm, uuid, t) ==
    IF uuid \in DOMAIN dm.devices
    THEN CHOOSE res \in
             {IF r.err = None
              THEN DmRes([DmDeviceStep(dm, uuid, r) EXCEPT
                             !.last_fan_updates[uuid] = t], None, None)
              ELSE DmRes(DmDeviceStep(dm, uuid, r), None, r.err) :
                  r \in {update_fan(dm.devices[uuid], dm.driver[uuid])}} : TRUE
    ELSE DmRes(dm, None, Some("InvalidDevice"))

\* The configuration quit_manager applies to every device.
QuitConfig == GpuConfigDefault

\* DevicesManager::quit_manager over the devices taken in the order
\* `order`: the first error ends the loop.
RECURSIVE quit_manager(_, _)
quit_manager(dm, order) ==
    IF order = << >> THEN DmRes(dm, None, None)
    ELSE LET uuid == Head(order)
             r1 == set_fan_mode(dm.devices[uuid], dm.driver[uuid], FanAuto)
             dm1 == DmDeviceStep(dm, uuid, r1)
             r2 == apply_gpu_config(dm1.devices[uuid], dm1.driver[uuid],
                                    QuitConfig)
             dm2 == DmDeviceStep(dm1, uuid, r2)
         IN  IF r1.err # None THEN DmRes(dm1, None, r1.err)
             ELSE IF r2.err # None THEN DmRes(dm2, None, r2.err)
             ELSE quit_manager(dm2, Tail(order))

(***************************************************************************)
(* The Devices Manager alone, with its driver and the clock (SpecDev).     *)
(* Handlers are synchronous and take no time; the error sink accepts each  *)
(* error at once.                                                          *)
(***************************************************************************)
\* No Configuration Manager: the state its variables keep meanwhile.
CfgIdle ==
    /\ cfgFile = MissingFile
    /\ cmPc = "new"
    /\ SetTablesInit
    /\ cmResult = [msg |-> [kind |-> "None"], reply |-> None, err |-> None]
    /\ cmSaveAge = 0

DM ==
    [devices |-> devices, driver |-> driver,
     fan_update_intervals |-> fan_update_intervals,
     last_fan_updates |-> last_fan_updates]

SetDM(dm) ==
    /\ devices' = dm.devices
    /\ driver' = dm.driver
    /\ fan_update_intervals' = dm.fan_update_intervals
    /\ last_fan_updates' = dm.last_fan_updates

\* DevicesManager::new for the boards in DevUuids whose driver policies
\* are `policy`: the fan of each is updated once, at time 0.
DevicesManager_new(policy) ==
    LET dev0 == [u \in DevUuids |-> NvidiaDevice_new(policy[u])]
        drv0 == [u \in DevUuids |-> DriverDefault(policy[u])]
    IN  CHOOSE dm \in
            {[devices |-> [u \in DevUuids |-> r[u].dev],
              driver |-> [u \in DevUuids |-> r[u].drv],
              fan_update_intervals |->
                  [u \in DevUuids |-> DEFAULT_FAN_UPDATE_INTERVAL],
              last_fan_updates |-> [u \in DevUuids |-> 0]] :
                 r \in {[u \in DevUuids |-> update_fan(dev0[u], drv0[u])]}} :
            TRUE

\* The fan policies the driver may hold when the daemon starts.
InitialPolicies ==
    {[u \in DevUuids |-> PolicyAuto],
     [u \in DevUuids |-> IF u = "GPU-a" THEN PolicyManual ELSE PolicyAuto],
     [u \in DevUuids |-> IF u = "GPU-b" THEN PolicyManual ELSE PolicyAuto]}

\* The manager is constructed and run() has computed its first schedule.
DevStart ==
    /\ \E policy \in InitialPolicies :
          \E dm \in {DevicesManager_new(policy)} :
              /\ devices = dm.devices
              /\ driver = dm.driver
              /\ fan_update_intervals = dm.fan_update_intervals
              /\ last_fan_updates = dm.last_fan_updates
    /\ devicesOrder \in Perms(DevUuids)
    /\ lastUpdatesOrder \in Perms(DevUuids)
    /\ now = 0
    /\ next_fan_update_device =
          schedule_fan_update(DM, lastUpdatesOrder, 0).device
    /\ next_fan_update_time =
          schedule_fan_update(DM, lastUpdatesOrder, 0).time
    /\ sleepStart = 0
    /\ dmPc = "running"
    /\ cancelled = FALSE
    /\ dmResult = [msg |-> [kind |-> "None"], reply |-> None, err |-> None]
    /\ dmHandled = 0

InitDev == DevStart /\ CfgIdle /\ ActIdle /\ CurveIdle /\ FanIdle

\* The sleep of the current select! has expired.
TimerReady == now >= sleepStart + next_fan_update_time

\* The loop spins: the sleep is of zero length and the update of the
\* scheduled device fails, which leaves last_fan_updates as it was, so the
\* next schedule is the same again.
Spinning ==
    /\ next_fan_update_time = 0
    /\ next_fan_update_device \in DOMAIN driver
    /\ ~driver[next_fan_update_device].healthy

\* One second passes.  An expired sleep is served before the clock moves,
\* except that a spinning loop never comes to rest: its passes add up to
\* any length of time.
DevTick ==
    /\ dmPc = "running"
    /\ now < MaxTime
    /\ ~TimerReady \/ Spinning
    /\ now' = now + 1
    /\ UNCHANGED << devices, driver, fan_update_intervals, last_fan_updates,
                    devicesOrder, lastUpdatesOrder, next_fan_update_device,
                    next_fan_update_time, sleepStart, dmPc, cancelled,
                    dmResult, dmHandled >>
    /\ UNCHANGED << cfgVars, actVars, curveVars, fanVars >>

\* run(), message branch: the message is handled, an error goes to the
\* error sink, and the loop starts its select! again, which makes a new
\* sleep of the duration computed at the last schedule.
DevHandle(msg) ==
    /\ dmPc = "running"
    /\ dmHandled < MaxMessages
    /\ \E r \in {dm_parse_message(DM, msg, now)} :
          /\ SetDM(r.dm)
          /\ dmResult' = [msg |-> msg, reply |-> r.reply, err |-> r.err]
    /\ sleepStart' = now
    /\ dmHandled' = dmHandled + 1
    /\ UNCHANGED << devicesOrder, lastUpdatesOrder, next_fan_update_device,
                    next_fan_update_time, now, dmPc, cancelled >>
    /\ UNCHANGED << cfgVars, actVars, curveVars, fanVars >>

DevQuery ==
    \E k \in DmQueryKinds, u \in MsgUuids, o \in BOOLEAN :
        DevHandle([kind |-> k, uuid |-> u, rx_open |-> o])

DevSetDeviceDataUpdateInterval ==
    \E u \in MsgUuids, i \in DevIntervals :
        DevHandle([kind |-> "SetDeviceDataUpdateInterval", uuid |-> u,
                   interval |-> i])

DevSetDeviceFanMode ==
    \E u \in MsgUuids, m \in DevModes :
        DevHandle([kind |-> "SetDeviceFanMode", uuid |-> u, fan_mode |-> m])

DevSetDeviceFanCurve ==
    \E u \in MsgUuids :
        DevHandle([kind |-> "SetDeviceFanCurve", uuid |-> u,
                   fan_curve |-> HysteresisCurve_from_info(CurveInfoA)])

DevSetDeviceFanUpdateInterval ==
    \E u \in MsgUuids, i \in DevIntervals :
        DevHandle([kind |-> "SetDeviceFanUpdateInterval", uuid |-> u,
                   interval |-> i])

DevApplyDeviceGpuConfig ==
    \E u \in MsgUuids, c \in DevConfigs :
        DevHandle([kind |-> "ApplyDeviceGpuConfig", uuid |-> u,
                   config |-> c])

\* run(), sleep branch: the scheduled device is updated, an error goes to
\* the error sink, and the next update is scheduled.
DevFanTimer ==
    /\ dmPc = "running"
    /\ TimerReady
    /\ \E r \in {update_fans(DM, next_fan_update_device, now)} :
          \E s \in {schedule_fan_update(r.dm, lastUpdatesOrder, now)} :
              /\ SetDM(r.dm)
              /\ dmResult' = [msg |-> [kind |-> "FanTimer",
                                       uuid |-> next_fan_update_device],
                              reply |-> None, err |-> r.err]
              /\ next_fan_update_device' = s.device
              /\ next_fan_update_time' = s.time
    /\ sleepStart' = now
    /\ UNCHANGED << devicesOrder, lastUpdatesOrder, now, dmPc, cancelled,
                    dmHandled >>
    /\ UNCHANGED << cfgVars, actVars, curveVars, fanVars >>

\* The CancellationToken is cancelled.
DevCancel ==
    /\ dmPc = "running"
    /\ ~cancelled
    /\ cancelled' = TRUE
    /\ UNCHANGED << devices, driver, fan_update_intervals, last_fan_updates,
                    devicesOrder, lastUpdatesOrder, next_fan_update_device,
                    next_fan_update_time, sleepStart, now, dmPc, dmResult,
                    dmHandled >>
    /\ UNCHANGED << cfgVars, actVars, curveVars, fanVars >>

\* run(), cancel branch: quit_manager, its error is logged, the loop ends.
DevQuit ==
    /\ dmPc = "running"
    /\ cancelled
    /\ LET r == quit_manager(DM, devicesOrder)
       IN  /\ SetDM(r.dm)
           /\ dmResult' = [msg |-> [kind |-> "Quit"], reply |-> None,
                           err |-> r.err]
    /\ dmPc' = "exited"
    /\ UNCHANGED << devicesOrder, lastUpdatesOrder, next_fan_update_device,
                    next_fan_update_time, sleepStart, now, cancelled,
                    dmHandled >>
    /\ UNCHANGED << cfgVars, actVars, curveVars, fanVars >>

\* The driver starts failing the calls made on a board.
DriverFault ==
    /\ dmPc = "running"
    /\ \E u \in FaultyUuids :
          /\ driver[u].healthy
          /\ driver' = [driver EXCEPT ![u].healthy = FALSE]
    /\ UNCHANGED << devices, fan_update_intervals, last_fan_updates,
                    devicesOrder, lastUpdatesOrder, next_fan_update_device,
                    next_fan_update_time, sleepStart, now, dmPc, cancelled,
                    dmResult, dmHandled >>
    /\ UNCHANGED << cfgVars, actVars, curveVars, fanVars >>

NextDev ==
    \/ DevTick
    \/ DevQuery
    \/ DevSetDeviceDataUpdateInterval
    \/ DevSetDeviceFanMode
    \/ DevSetDeviceFanCurve
    \/ DevSetDeviceFanUpdateInterval
    \/ DevApplyDeviceGpuConfig
    \/ DevFanTimer
    \/ DevCancel
    \/ DevQuit
    \/ DriverFault

SpecDev == InitDev /\ [][NextDev]_vars

(***************************************************************************)
(* Properties of the Devices Manager (SpecDev).                            *)
(***************************************************************************)
\* The board is as the driver's defaults have it: automatic fan policy, no
\* clock offset, no power-limit override.
DriverRestored(u) ==
    /\ driver[u].policy = PolicyAuto
    /\ driver[u].core_clock_offset = 0
    /\ driver[u].mem_clock_offset = 0
    /\ driver[u].power_limit = None

\* C1 (shutdown restoration), as claimed: once the cancel branch has run
\* quit_manager and the driver accepted every call it made, every device
\* has fan mode Auto, the automatic fan policy, and its core-clock offset,
\* memory-clock offset and power-limit override cleared.
ShutdownRestoration ==
    (dmPc = "exited" /\ dmResult.msg.kind = "Quit" /\ dmResult.err = None) =>
        \A u \in DOMAIN devices :
            devices[u].fan_mode = FanAuto /\ DriverRestored(u)

\* C2 (fan-loop freshness), as claimed: while the manager runs, with every
\* driver call accepted and the device's interval T left at its default,
\* the time since the device's last fan update never exceeds T + Epsilon,
\* however messages and timer expiries interleave.
FanLoopFreshness ==
    (/\ dmPc = "running"
     /\ ~cancelled
     /\ \A v \in DOMAIN driver : driver[v].healthy) =>
        \A u \in DOMAIN last_fan_updates :
            fan_update_intervals[u] = DEFAULT_FAN_UPDATE_INTERVAL =>
                now - last_fan_updates[u] <= fan_update_intervals[u] + Epsilon

(***************************************************************************)
(* The four actors together (SpecActors): the Devices Manager, the         *)
(* Configuration Manager, the State Manager and the D-Bus service, joined  *)
(* by bounded mpsc channels and one-shot reply channels.  A send on a full *)
(* channel waits; a send on a channel whose receiver is gone fails at      *)
(* once; dropping a receiver drops the messages queued in it, and with     *)
(* them their reply senders.                                               *)
(***************************************************************************)
\* A State Manager that asks for the fan mode first.
ApplyOrder_mode_first ==
    << "GetFanMode", "GetFanCurve", "GetFanUpdateInterval", "GetConfig" >>

\* apply_settings: the settings requested for each device, in this order.
ApplyOrder ==
    << "GetFanCurve", "GetFanUpdateInterval", "GetFanMode", "GetConfig" >>

SettingKinds ==
    {"SetDeviceFanCurve", "SetDeviceFanUpdateInterval", "SetDeviceFanMode",
     "ApplyDeviceGpuConfig"}

\* apply_fan_curve, apply_fan_update_interval, apply_fan_mode, apply_config:
\* the message sent to the Devices Manager for an answer of the
\* Configuration Manager, None when nothing is sent.
ApplyMessage(uuid, answer) ==
    IF answer.kind = "FanCurve"
    THEN IF IsSome(answer.fan_curve)
         THEN Some([kind |-> "SetDeviceFanCurve", uuid |-> uuid,
                    fan_curve |->
                        HysteresisCurve_from_info(Unwrap(answer.fan_curve))])
         ELSE None
    ELSE IF answer.kind = "FanUpdateInterval"
    THEN IF IsSome(answer.interval)
         THEN Some([kind |-> "SetDeviceFanUpdateInterval", uuid |-> uuid,
                    interval |-> Unwrap(answer.interval)])
         ELSE None
    ELSE IF answer.kind = "FanMode"
    THEN Some([kind |-> "SetDeviceFanMode", uuid |-> uuid,
               fan_mode |-> answer.fan_mode])
    ELSE IF IsSome(answer.config)
         THEN Some([kind |-> "ApplyDeviceGpuConfig", uuid |-> uuid,
                    config |-> Unwrap(answer.config)])
         ELSE None

\* parse_dbus_message: the query sent to the Devices Manager for a message
\* of the D-Bus service, and the answer passed back.
DbusToDm(msg) ==
    IF msg.kind = "GetGpus" THEN [kind |-> "ListDevices", rx_open |-> TRUE]
    ELSE IF msg.kind = "GetGpuInfo"
    THEN [kind |-> "GetDeviceInfo", uuid |-> msg.uuid, rx_open |-> TRUE]
    ELSE [kind |-> "GetDeviceVendorInfo", uuid |-> msg.uuid,
          rx_open |-> TRUE]

DmToDbus(answer) ==
    IF answer.kind = "DeviceList" THEN [kind |-> "Gpus"]
    ELSE IF answer.kind = "DeviceInfo"
    THEN [kind |-> "GpuInfo", uuid |-> answer.uuid]
    ELSE [kind |-> "GpuVendorInfo", uuid |-> answer.uuid]

\* initialize_service after GetGpus: for each device initialize_object asks
\* for the vendor info and GpuInterface::new asks for the info.
RECURSIVE ObjectQueries(_)
ObjectQueries(uuids) ==
    IF uuids = << >> THEN << >>
    ELSE << [kind |-> "GetGpuVendorInfo", uuid |-> Head(uuids)],
            [kind |-> "GetGpuInfo", uuid |-> Head(uuids)] >>
         \o ObjectQueries(Tail(uuids))

\* err.into(): what travels on the error channel.  The State Manager only
\* logs it, so the errors are not told apart.
MossdError(err) == "MossdError"

\* The error channel: its receiver lives in StateManager::run.
ErrClosed == smPc = "exited"

ErrRoom == Len(errQueue) < CHANNEL_CAPACITY

HasQuery(queue, kinds) == \E i \in 1..Len(queue) : queue[i].kind \in kinds

\* The managers and the services are constructed, none has run yet.
InitAct ==
    /\ DevStart
    /\ devicesOrder = << "GPU-a", "GPU-b" >>
    /\ lastUpdatesOrder = devicesOrder
    /\ \A u \in DevUuids : driver[u].policy = PolicyAuto
    /\ cfgFile \in {SampleDoc, MissingFile}
    /\ cmPc = "new"
    /\ SetTablesInit
    /\ cmResult = [msg |-> [kind |-> "None"], reply |-> None, err |-> None]
    /\ cmSaveAge = 0
    /\ dmQueue = << >>
    /\ cmQueue = << >>
    /\ dbusQueue = << >>
    /\ errQueue = << >>
    /\ dmReply = OneshotEmpty
    /\ cmReply = OneshotEmpty
    /\ dbusReply = OneshotEmpty
    /\ dmWait = None
    /\ dbusWait = None
    /\ smPc = "list_send"
    /\ smUuids = << >>
    /\ smStep = 1
    /\ smResult = [handler |-> "none", err |-> None, logged |-> FALSE]
    /\ dbusPc = "connect"
    /\ dbusTodo = << >>
    /\ dbusObjects = {}
    /\ dbusName = FALSE
    /\ dbusResult = None
    /\ dmLog = << >>
    /\ CurveIdle
    /\ FanIdle

(***************************************************************************)
(* Devices Manager                                                         *)
(***************************************************************************)
\* tx_err.send(err).await in run(): the error is queued, or the send fails
\* because the receiver is gone, or the manager waits for room.
DmSendError(err, branch) ==
    IF err = None \/ ErrClosed
    THEN /\ dmPc' = "running"
         /\ UNCHANGED << errQueue, dmWait >>
    ELSE IF ErrRoom
    THEN /\ errQueue' = Append(errQueue, MossdError(Unwrap(err)))
         /\ dmPc' = "running"
         /\ UNCHANGED dmWait
    ELSE /\ dmPc' = "send_err"
         /\ dmWait' = Some([err |-> Unwrap(err), branch |-> branch])
         /\ UNCHANGED errQueue

\* run(), message branch.
DmRecv ==
    /\ dmPc = "running"
    /\ dmQueue # << >>
    /\ LET msg == Head(dmQueue)
       IN  \E r \in {dm_parse_message(DM, msg, now)} :
           /\ SetDM(r.dm)
           /\ dmReply' = IF msg.kind \notin DmQueryKinds THEN dmReply
                         ELSE IF IsSome(r.reply)
                         THEN OneshotSent(Unwrap(r.reply))
                         ELSE OneshotDropped
           /\ dmLog' = IF msg.kind \in SettingKinds
                       THEN Append(dmLog, [kind |-> msg.kind,
                                           uuid |-> msg.uuid])
                       ELSE dmLog
           /\ DmSendError(r.err, "message")
    /\ dmQueue' = Tail(dmQueue)
    /\ sleepStart' = now
    /\ UNCHANGED << cfgFile, cmPc, gpu_datas, profile_datas,
                    fan_curve_datas, config_datas, cmResult, cmSaveAge,
                    devicesOrder, lastUpdatesOrder, next_fan_update_device,
                    next_fan_update_time, now, cancelled, dmResult,
                    dmHandled, cmQueue, dbusQueue, cmReply, dbusReply,
                    dbusWait, smPc, smUuids, smStep, smResult, dbusPc,
                    dbusTodo, dbusObjects, dbusName, dbusResult >>
    /\ UNCHANGED << curveVars, fanVars >>

\* run(), sleep branch; the next update is scheduled once the error, if
\* any, has been sent.
DmFanTimer ==
    /\ dmPc = "running"
    /\ TimerReady
    /\ \E r \in {update_fans(DM, next_fan_update_device, now)} :
          \E s \in {schedule_fan_update(r.dm, lastUpdatesOrder, now)} :
              /\ SetDM(r.dm)
              /\ DmSendError(r.err, "sleep")
              /\ IF dmPc' = "running"
                 THEN /\ next_fan_update_device' = s.device
                      /\ next_fan_update_time' = s.time
                 ELSE UNCHANGED << next_fan_update_device,
                                   next_fan_update_time >>
    /\ sleepStart' = now
    /\ UNCHANGED << cfgFile, cmPc, gpu_datas, profile_datas,
                    fan_curve_datas, config_datas, cmResult, cmSaveAge,
                    devicesOrder, lastUpdatesOrder, now, cancelled,
                    dmResult, dmHandled, dmQueue, cmQueue, dbusQueue,
                    dmReply, cmReply, dbusReply, dbusWait, smPc, smUuids,
                    smStep, smResult, dbusPc, dbusTodo, dbusObjects,
                    dbusName, dbusResult, dmLog >>
    /\ UNCHANGED << curveVars, fanVars >>

\* The pending tx_err.send completes: there is room, or the receiver went.
DmErrSent ==
    /\ dmPc = "send_err"
    /\ ErrClosed \/ ErrRoom
    /\ errQueue' = IF ErrClosed THEN errQueue
                   ELSE Append(errQueue, MossdError(Unwrap(dmWait).err))
    /\ IF Unwrap(dmWait).branch = "sleep"
       THEN LET s == schedule_fan_update(DM, lastUpdatesOrder, now)
            IN  /\ next_fan_update_device' = s.device
                /\ next_fan_update_time' = s.time
       ELSE UNCHANGED << next_fan_update_device, next_fan_update_time >>
    /\ dmPc' = "running"
    /\ dmWait' = None
    /\ sleepStart' = now
    /\ UNCHANGED << cfgFile, cmPc, gpu_datas, profile_datas,
                    fan_curve_datas, config_datas, cmResult, cmSaveAge,
                    devices, driver, fan_update_intervals, last_fan_updates,
                    devicesOrder, lastUpdatesOrder, now, cancelled,
                    dmResult, dmHandled, dmQueue, cmQueue, dbusQueue,
                    dmReply, cmReply, dbusReply, dbusWait, smPc, smUuids,
                    smStep, smResult, dbusPc, dbusTodo, dbusObjects,
                    dbusName, dbusResult, dmLog >>
    /\ UNCHANGED << curveVars, fanVars >>

\* run(), cancel branch.  The receiver goes with the manager.
DmQuit ==
    /\ dmPc = "running"
    /\ cancelled
    /\ LET r == quit_manager(DM, devicesOrder)
       IN  /\ SetDM(r.dm)
    /\ dmPc' = "exited"
    /\ dmReply' = IF HasQuery(dmQueue, DmQueryKinds) THEN OneshotDropped
                  ELSE dmReply
    /\ dmQueue' = << >>
    /\ UNCHANGED << cfgFile, cmPc, gpu_datas, profile_datas,
                    fan_curve_datas, config_datas, cmResult, cmSaveAge,
                    devicesOrder, lastUpdatesOrder, next_fan_update_device,
                    next_fan_update_time, sleepStart, now, cancelled,
                    dmResult, dmHandled, cmQueue, dbusQueue, errQueue,
                    cmReply, dbusReply, dmWait, dbusWait, smPc, smUuids,
                    smStep, smResult, dbusPc, dbusTodo, dbusObjects,
                    dbusName, dbusResult, dmLog >>
    /\ UNCHANGED << curveVars, fanVars >>

DmStep == DmRecv \/ DmFanTimer \/ DmErrSent \/ DmQuit

(***************************************************************************)
(* Configuration Manager                                                   *)
(***************************************************************************)
\* tx_err.send(err).await in run(): the error is queued once the channel
\* has room, or the send fails because the receiver is gone.  Until then
\* the manager is inside the send.
CmSendError(err) ==
    IF err = None \/ ErrClosed THEN UNCHANGED errQueue
    ELSE /\ ErrRoom
         /\ errQueue' = Append(errQueue, MossdError(Unwrap(err)))

\* run() up to its loop: the file is loaded, a load error is sent.
CmStartup ==
    /\ cmPc = "new"
    /\ LET r == parse_config_file(CM, cfgFile)
       IN  /\ SetTables(r.cm)
           /\ IF r.panicked
              THEN cmPc' = "panicked" /\ UNCHANGED errQueue
              ELSE cmPc' = "running" /\ CmSendError(r.err)
    /\ UNCHANGED << cfgFile, cmResult, cmSaveAge, devices, driver,
                    fan_update_intervals, last_fan_updates, devicesOrder,
                    lastUpdatesOrder, next_fan_update_device,
                    next_fan_update_time, sleepStart, now, dmPc, cancelled,
                    dmResult, dmHandled, dmQueue, cmQueue, dbusQueue,
                    dmReply, cmReply, dbusReply, dmWait, dbusWait, smPc,
                    smUuids, smStep, smResult, dbusPc, dbusTodo,
                    dbusObjects, dbusName, dbusResult, dmLog >>
    /\ UNCHANGED << curveVars, fanVars >>

\* run(), message branch.
CmRecv ==
    /\ cmPc = "running"
    /\ cmQueue # << >>
    /\ LET msg == Head(cmQueue)
           r == parse_message(CM, msg)
       IN  /\ SetTables(r.cm)
           /\ cmReply' = IF msg.kind \notin GetKinds THEN cmReply
                         ELSE IF IsSome(r.reply)
                         THEN OneshotSent(Unwrap(r.reply))
                         ELSE OneshotDropped
           /\ CmSendError(r.err)
    /\ cmQueue' = Tail(cmQueue)
    /\ UNCHANGED << cfgFile, cmPc, cmResult, cmSaveAge, devices, driver,
                    fan_update_intervals, last_fan_updates, devicesOrder,
                    lastUpdatesOrder, next_fan_update_device,
                    next_fan_update_time, sleepStart, now, dmPc, cancelled,
                    dmResult, dmHandled, dmQueue, dbusQueue, dmReply,
                    dbusReply, dmWait, dbusWait, smPc, smUuids, smStep,
                    smResult, dbusPc, dbusTodo, dbusObjects, dbusName,
                    dbusResult, dmLog >>
    /\ UNCHANGED << curveVars, fanVars >>

\* run(), cancel branch.
CmQuit ==
    /\ cmPc = "running"
    /\ cancelled
    /\ cmPc' = "exited"
    /\ cmReply' = IF HasQuery(cmQueue, GetKinds) THEN OneshotDropped
                  ELSE cmReply
    /\ cmQueue' = << >>
    /\ UNCHANGED << cfgFile, gpu_datas, profile_datas, fan_curve_datas,
                    config_datas, cmResult, cmSaveAge, devices, driver,
                    fan_update_intervals, last_fan_updates, devicesOrder,
                    lastUpdatesOrder, next_fan_update_device,
                    next_fan_update_time, sleepStart, now, dmPc, cancelled,
                    dmResult, dmHandled, dmQueue, dbusQueue, errQueue,
                    dmReply, dbusReply, dmWait, dbusWait, smPc, smUuids,
                    smStep, smResult, dbusPc, dbusTodo, dbusObjects,
                    dbusName, dbusResult, dmLog >>
    /\ UNCHANGED << curveVars, fanVars >>

CmStep == CmStartup \/ CmRecv \/ CmQuit

(***************************************************************************)
(* State Manager                                                           *)
(***************************************************************************)
DmClosed == dmPc = "exited"

CmClosed == cmPc \in {"exited", "panicked"}

\* run(): apply_settings returned; its error is given to parse_error,
\* which logs it.
SmApplyReturned(err) ==
    smResult' = [handler |-> "apply_settings", err |-> err,
                 logged |-> err # None]

\* run(), D-Bus branch: parse_dbus_message returned; the arm that takes
\* its error is empty.
SmDbusReturned(err) ==
    smResult' = [handler |-> "parse_dbus_message", err |-> err,
                 logged |-> FALSE]

\* apply_settings: ListDevices is sent to the Devices Manager.  When the
\* send fails apply_settings returns the error and run() enters its loop.
SmListDevices ==
    /\ smPc = "list_send"
    /\ IF DmClosed
       THEN /\ smPc' = "loop"
            /\ SmApplyReturned(Some("TX"))
            /\ UNCHANGED << dmQueue, dmReply >>
       ELSE /\ Len(dmQueue) < CHANNEL_CAPACITY
            /\ dmQueue' = Append(dmQueue, [kind |-> "ListDevices",
                                           rx_open |-> TRUE])
            /\ dmReply' = OneshotEmpty
            /\ smPc' = "list_wait"
            /\ UNCHANGED smResult
    /\ UNCHANGED << cfgFile, cmPc, gpu_datas, profile_datas,
                    fan_curve_datas, config_datas, cmResult, cmSaveAge,
                    devices, driver, fan_update_intervals, last_fan_updates,
                    devicesOrder, lastUpdatesOrder, next_fan_update_device,
                    next_fan_update_time, sleepStart, now, dmPc, cancelled,
                    dmResult, dmHandled, cmQueue, dbusQueue, errQueue,
                    cmReply, dbusReply, dmWait, dbusWait, smUuids, smStep,
                    dbusPc, dbusTodo, dbusObjects, dbusName, dbusResult,
                    dmLog >>
    /\ UNCHANGED << curveVars, fanVars >>

\* apply_settings: the device list arrives, or its sender was dropped.
SmListAnswer ==
    /\ smPc = "list_wait"
    /\ dmReply.st # "empty"
    /\ IF dmReply.st = "sent" /\ devicesOrder # << >>
       THEN smUuids' = devicesOrder /\ smPc' = "cfg_send"
            /\ UNCHANGED smResult
       ELSE /\ smUuids' = << >>
            /\ smPc' = "loop"
            /\ SmApplyReturned(IF dmReply.st = "sent" THEN None
                               ELSE Some("RX"))
    /\ smStep' = 1
    /\ dmReply' = OneshotEmpty
    /\ UNCHANGED << cfgFile, cmPc, gpu_datas, profile_datas,
                    fan_curve_datas, config_datas, cmResult, cmSaveAge,
                    devices, driver, fan_update_intervals, last_fan_updates,
                    devicesOrder, lastUpdatesOrder, next_fan_update_device,
                    next_fan_update_time, sleepStart, now, dmPc, cancelled,
                    dmResult, dmHandled, dmQueue, cmQueue, dbusQueue,
                    errQueue, cmReply, dbusReply, dmWait, dbusWait, dbusPc,
                    dbusTodo, dbusObjects, dbusName, dbusResult, dmLog >>
    /\ UNCHANGED << curveVars, fanVars >>

\* apply_settings: the next setting of the current device is requested.
SmQueryConfig ==
    /\ smPc = "cfg_send"
    /\ IF CmClosed
       THEN /\ smPc' = "loop"
            /\ SmApplyReturned(Some("TX"))
            /\ UNCHANGED << cmQueue, cmReply >>
       ELSE /\ Len(cmQueue) < CHANNEL_CAPACITY
            /\ cmQueue' = Append(cmQueue, [kind |-> ApplyOrder[smStep],
                                           uuid |-> Head(smUuids)])
            /\ cmReply' = OneshotEmpty
            /\ smPc' = "cfg_wait"
            /\ UNCHANGED smResult
    /\ UNCHANGED << cfgFile, cmPc, gpu_datas, profile_datas,
                    fan_curve_datas, config_datas, cmResult, cmSaveAge,
                    devices, driver, fan_update_intervals, last_fan_updates,
                    devicesOrder, lastUpdatesOrder, next_fan_update_device,
                    next_fan_update_time, sleepStart, now, dmPc, cancelled,
                    dmResult, dmHandled, dmQueue, dbusQueue, errQueue,
                    dmReply, dbusReply, dmWait, dbusWait, smUuids, smStep,
                    dbusPc, dbusTodo, dbusObjects, dbusName, dbusResult,
                    dmLog >>
    /\ UNCHANGED << curveVars, fanVars >>

\* apply_settings: the setting arrives and is passed to the Devices
\* Manager, then the next setting or the next device follows.
SmApply ==
    /\ smPc = "cfg_wait"
    /\ cmReply.st # "empty"
    /\ cmReply' = OneshotEmpty
    /\ IF cmReply.st = "dropped"
       THEN /\ smPc' = "loop"
            /\ SmApplyReturned(Some("RX"))
            /\ UNCHANGED << dmQueue, smUuids, smStep >>
       ELSE LET m == ApplyMessage(Head(smUuids), cmReply.answer)
            IN  IF IsSome(m) /\ DmClosed
                THEN /\ smPc' = "loop"
                     /\ SmApplyReturned(Some("TX"))
                     /\ UNCHANGED << dmQueue, smUuids, smStep >>
                ELSE /\ IsSome(m) => Len(dmQueue) < CHANNEL_CAPACITY
                     /\ dmQueue' = IF IsSome(m)
                                   THEN Append(dmQueue, Unwrap(m))
                                   ELSE dmQueue
                     /\ IF smStep < Len(ApplyOrder)
                        THEN /\ smStep' = smStep + 1
                             /\ smPc' = "cfg_send"
                             /\ UNCHANGED << smUuids, smResult >>
                        ELSE /\ smStep' = 1
                             /\ smUuids' = Tail(smUuids)
                             /\ IF Tail(smUuids) = << >>
                                THEN /\ smPc' = "loop"
                                     /\ SmApplyReturned(None)
                                ELSE /\ smPc' = "cfg_send"
                                     /\ UNCHANGED smResult
    /\ UNCHANGED << cfgFile, cmPc, gpu_datas, profile_datas,
                    fan_curve_datas, config_datas, cmResult, cmSaveAge,
                    devices, driver, fan_update_intervals, last_fan_updates,
                    devicesOrder, lastUpdatesOrder, next_fan_update_device,
                    next_fan_update_time, sleepStart, now, dmPc, cancelled,
                    dmResult, dmHandled, cmQueue, dbusQueue, errQueue,
                    dmReply, dbusReply, dmWait, dbusWait, dbusPc, dbusTodo,
                    dbusObjects, dbusName, dbusResult, dmLog >>
    /\ UNCHANGED << curveVars, fanVars >>

\* run(), error branch: parse_error logs the error.
SmRecvErr ==
    /\ smPc = "loop"
    /\ errQueue # << >>
    /\ errQueue' = Tail(errQueue)
    /\ UNCHANGED << cfgFile, cmPc, gpu_datas, profile_datas,
                    fan_curve_datas, config_datas, cmResult, cmSaveAge,
                    devices, driver, fan_update_intervals, last_fan_updates,
                    devicesOrder, lastUpdatesOrder, next_fan_update_device,
                    next_fan_update_time, sleepStart, now, dmPc, cancelled,
                    dmResult, dmHandled, dmQueue, cmQueue, dbusQueue,
                    dmReply, cmReply, dbusReply, dmWait, dbusWait, smPc,
                    smUuids, smStep, smResult, dbusPc, dbusTodo,
                    dbusObjects, dbusName, dbusResult, dmLog >>
    /\ UNCHANGED << curveVars, fanVars >>

\* run(), D-Bus branch: parse_dbus_message sends the query to the Devices
\* Manager; when the send fails the reply sender is dropped.
SmRecvDbus ==
    /\ smPc = "loop"
    /\ dbusQueue # << >>
    /\ dbusQueue' = Tail(dbusQueue)
    /\ IF DmClosed
       THEN /\ dbusReply' = OneshotDropped
            /\ SmDbusReturned(Some("TX"))
            /\ UNCHANGED << smPc, dmQueue, dmReply >>
       ELSE /\ Len(dmQueue) < CHANNEL_CAPACITY
            /\ dmQueue' = Append(dmQueue, DbusToDm(Head(dbusQueue)))
            /\ dmReply' = OneshotEmpty
            /\ smPc' = "dbus_wait"
            /\ UNCHANGED << dbusReply, smResult >>
    /\ UNCHANGED << cfgFile, cmPc, gpu_datas, profile_datas,
                    fan_curve_datas, config_datas, cmResult, cmSaveAge,
                    devices, driver, fan_update_intervals, last_fan_updates,
                    devicesOrder, lastUpdatesOrder, next_fan_update_device,
                    next_fan_update_time, sleepStart, now, dmPc, cancelled,
                    dmResult, dmHandled, cmQueue, errQueue, cmReply, dmWait,
                    dbusWait, smUuids, smStep, dbusPc, dbusTodo,
                    dbusObjects, dbusName, dbusResult, dmLog >>
    /\ UNCHANGED << curveVars, fanVars >>

\* parse_dbus_message: the answer arrives and is passed on, or its sender
\* was dropped and the error drops the D-Bus reply sender.
SmDbusAnswer ==
    /\ smPc = "dbus_wait"
    /\ dmReply.st # "empty"
    /\ dbusReply' = IF dmReply.st = "sent"
                    THEN OneshotSent(DmToDbus(dmReply.answer))
                    ELSE OneshotDropped
    /\ SmDbusReturned(IF dmReply.st = "sent" THEN None ELSE Some("RX"))
    /\ dmReply' = OneshotEmpty
    /\ smPc' = "loop"
    /\ UNCHANGED << cfgFile, cmPc, gpu_datas, profile_datas,
                    fan_curve_datas, config_datas, cmResult, cmSaveAge,
                    devices, driver, fan_update_intervals, last_fan_updates,
                    devicesOrder, lastUpdatesOrder, next_fan_update_device,
                    next_fan_update_time, sleepStart, now, dmPc, cancelled,
                    dmResult, dmHandled, dmQueue, cmQueue, dbusQueue,
                    errQueue, cmReply, dmWait, dbusWait, smUuids, smStep,
                    dbusPc, dbusTodo, dbusObjects, dbusName, dbusResult,
                    dmLog >>
    /\ UNCHANGED << curveVars, fanVars >>

\* run(), cancel branch.  The receivers go with the manager.
SmQuit ==
    /\ smPc = "loop"
    /\ cancelled
    /\ smPc' = "exited"
    /\ dbusReply' = IF dbusQueue # << >> THEN OneshotDropped ELSE dbusReply
    /\ dbusQueue' = << >>
    /\ errQueue' = << >>
    /\ UNCHANGED << cfgFile, cmPc, gpu_datas, profile_datas,
                    fan_curve_datas, config_datas, cmResult, cmSaveAge,
                    devices, driver, fan_update_intervals, last_fan_updates,
                    devicesOrder, lastUpdatesOrder, next_fan_update_device,
                    next_fan_update_time, sleepStart, now, dmPc, cancelled,
                    dmResult, dmHandled, dmQueue, cmQueue, dmReply, cmReply,
                    dmWait, dbusWait, smUuids, smStep, smResult, dbusPc,
                    dbusTodo, dbusObjects, dbusName, dbusResult, dmLog >>
    /\ UNCHANGED << curveVars, fanVars >>

SmStep ==
    \/ SmListDevices
    \/ SmListAnswer
    \/ SmQueryConfig
    \/ SmApply
    \/ SmRecvErr
    \/ SmRecvDbus
    \/ SmDbusAnswer
    \/ SmQuit

(***************************************************************************)
(* D-Bus service                                                           *)
(***************************************************************************)
\* tx_err.send(err).await, after which the service is at `next`.
DbusSendError(err, next) ==
    IF ErrClosed
    THEN dbusPc' = next /\ UNCHANGED << errQueue, dbusWait >>
    ELSE IF ErrRoom
    THEN /\ errQueue' = Append(errQueue, MossdError(err))
         /\ dbusPc' = next
         /\ UNCHANGED dbusWait
    ELSE /\ dbusPc' = "send_err"
         /\ dbusWait' = Some([err |-> err, next |-> next])
         /\ UNCHANGED errQueue

\* initialize_service returns Err(err) at a `?`; run() sends the error and
\* goes on to its loop.
DbusFail(err) ==
    /\ dbusResult' = Some(err)
    /\ DbusSendError(err, "loop")

\* The interfaces initialize_object puts at the path of a device: the GPU
\* interface, and the Nvidia interface for an Nvidia device.  Every device
\* of the NVML back end is an Nvidia device.
ObjectInterfaces == << "Gpu", "Nvidia" >>

\* object_server().at(path, interface) per interface, in order, stopping
\* at the first that fails: the interfaces registered when `n` succeed.
RegisteredAfter(objects, uuid, n) ==
    objects \cup { << uuid, ObjectInterfaces[i] >> : i \in 1..n }

\* Where initialize_service stands when `todo` queries are left: the loop
\* over gpu_uuids goes on, or it is over and the name is requested.
InitPosition_early(todo) == "name"

InitPosition(todo) == IF todo = << >> THEN "name" ELSE "send"

\* run(): the bus connection is made, or fails and run() returns after
\* sending the error.
DbusConnect ==
    /\ dbusPc = "connect"
    /\ \/ /\ dbusPc' = "send"
          /\ dbusTodo' = << [kind |-> "GetGpus"] >>
          /\ UNCHANGED << errQueue, dbusWait >>
       \/ /\ DbusSendError("DBusConnection", "exited")
          /\ UNCHANGED dbusTodo
    /\ UNCHANGED << cfgFile, cmPc, gpu_datas, profile_datas,
                    fan_curve_datas, config_datas, cmResult, cmSaveAge,
                    devices, driver, fan_update_intervals, last_fan_updates,
                    devicesOrder, lastUpdatesOrder, next_fan_update_device,
                    next_fan_update_time, sleepStart, now, dmPc, cancelled,
                    dmResult, dmHandled, dmQueue, cmQueue, dbusQueue,
                    dmReply, cmReply, dbusReply, dmWait, smPc, smUuids,
                    smStep, smResult, dbusObjects, dbusName, dbusResult,
                    dmLog >>
    /\ UNCHANGED << curveVars, fanVars >>

\* initialize_service: the next query is sent to the State Manager; when
\* the send fails initialize_service returns the error.
DbusSend ==
    /\ dbusPc = "send"
    /\ IF smPc = "exited"
       THEN /\ DbusFail("TX")
            /\ UNCHANGED << dbusQueue, dbusReply >>
       ELSE /\ Len(dbusQueue) < CHANNEL_CAPACITY
            /\ dbusQueue' = Append(dbusQueue, Head(dbusTodo))
            /\ dbusReply' = OneshotEmpty
            /\ dbusPc' = "wait"
            /\ UNCHANGED << errQueue, dbusWait, dbusResult >>
    /\ UNCHANGED << cfgFile, cmPc, gpu_datas, profile_datas,
                    fan_curve_datas, config_datas, cmResult, cmSaveAge,
                    devices, driver, fan_update_intervals, last_fan_updates,
                    devicesOrder, lastUpdatesOrder, next_fan_update_device,
                    next_fan_update_time, sleepStart, now, dmPc, cancelled,
                    dmResult, dmHandled, dmQueue, cmQueue, dmReply, cmReply,
                    dmWait, smPc, smUuids, smStep, smResult, dbusTodo,
                    dbusObjects, dbusName, dmLog >>
    /\ UNCHANGED << curveVars, fanVars >>

\* initialize_service: the answer arrives, or its sender was dropped and
\* initialize_service returns the error.  The answer to GetGpus gives the
\* devices to make objects for; the answer to GetGpuInfo completes
\* GpuInterface::new, and initialize_object registers the interfaces of
\* the device, each of which the object server may refuse.
DbusAnswer ==
    /\ dbusPc = "wait"
    /\ dbusReply.st # "empty"
    /\ dbusReply' = OneshotEmpty
    /\ IF dbusReply.st = "dropped"
       THEN DbusFail("RX") /\ UNCHANGED << dbusTodo, dbusObjects >>
       ELSE IF Head(dbusTodo).kind = "GetGpus"
       THEN /\ dbusTodo' = ObjectQueries(devicesOrder)
            /\ dbusPc' = InitPosition(dbusTodo')
            /\ UNCHANGED << errQueue, dbusWait, dbusObjects, dbusResult >>
       ELSE IF Head(dbusTodo).kind = "GetGpuVendorInfo"
       THEN /\ dbusTodo' = Tail(dbusTodo)
            /\ dbusPc' = InitPosition(dbusTodo')
            /\ UNCHANGED << errQueue, dbusWait, dbusObjects, dbusResult >>
       ELSE \E n \in 0..Len(ObjectInterfaces) :
               /\ dbusObjects' =
                      RegisteredAfter(dbusObjects, Head(dbusTodo).uuid, n)
               /\ IF n = Len(ObjectInterfaces)
                  THEN /\ dbusTodo' = Tail(dbusTodo)
                       /\ dbusPc' = InitPosition(dbusTodo')
                       /\ UNCHANGED << errQueue, dbusWait, dbusResult >>
                  ELSE /\ DbusFail("DBusObject")
                       /\ UNCHANGED dbusTodo
    /\ UNCHANGED << cfgFile, cmPc, gpu_datas, profile_datas,
                    fan_curve_datas, config_datas, cmResult, cmSaveAge,
                    devices, driver, fan_update_intervals, last_fan_updates,
                    devicesOrder, lastUpdatesOrder, next_fan_update_device,
                    next_fan_update_time, sleepStart, now, dmPc, cancelled,
                    dmResult, dmHandled, dmQueue, cmQueue, dbusQueue,
                    dmReply, cmReply, dmWait, smPc, smUuids, smStep,
                    smResult, dbusName, dmLog >>
    /\ UNCHANGED << curveVars, fanVars >>

\* initialize_service: request_name succeeds, and initialize_service
\* returns Ok, or fails.
DbusRequestName ==
    /\ dbusPc = "name"
    /\ \/ /\ dbusName' = TRUE
          /\ dbusResult' = Some("Ok")
          /\ dbusPc' = "loop"
          /\ UNCHANGED << errQueue, dbusWait >>
       \/ /\ DbusFail("DBusConnection")
          /\ UNCHANGED dbusName
    /\ UNCHANGED << cfgFile, cmPc, gpu_datas, profile_datas,
                    fan_curve_datas, config_datas, cmResult, cmSaveAge,
                    devices, driver, fan_update_intervals, last_fan_updates,
                    devicesOrder, lastUpdatesOrder, next_fan_update_device,
                    next_fan_update_time, sleepStart, now, dmPc, cancelled,
                    dmResult, dmHandled, dmQueue, cmQueue, dbusQueue,
                    dmReply, cmReply, dbusReply, dmWait, smPc, smUuids,
                    smStep, smResult, dbusTodo, dbusObjects, dmLog >>
    /\ UNCHANGED << curveVars, fanVars >>

DbusErrSent ==
    /\ dbusPc = "send_err"
    /\ ErrClosed \/ ErrRoom
    /\ errQueue' = IF ErrClosed THEN errQueue
                   ELSE Append(errQueue, MossdError(Unwrap(dbusWait).err))
    /\ dbusPc' = Unwrap(dbusWait).next
    /\ dbusWait' = None
    /\ UNCHANGED << cfgFile, cmPc, gpu_datas, profile_datas,
                    fan_curve_datas, config_datas, cmResult, cmSaveAge,
                    devices, driver, fan_update_intervals, last_fan_updates,
                    devicesOrder, lastUpdatesOrder, next_fan_update_device,
                    next_fan_update_time, sleepStart, now, dmPc, cancelled,
                    dmResult, dmHandled, dmQueue, cmQueue, dbusQueue,
                    dmReply, cmReply, dbusReply, dmWait, smPc, smUuids,
                    smStep, smResult, dbusTodo, dbusObjects, dbusName,
                    dbusResult, dmLog >>
    /\ UNCHANGED << curveVars, fanVars >>

\* run(), cancel branch.
DbusQuit ==
    /\ dbusPc = "loop"
    /\ cancelled
    /\ dbusPc' = "exited"
    /\ UNCHANGED << cfgFile, cmPc, gpu_datas, profile_datas,
                    fan_curve_datas, config_datas, cmResult, cmSaveAge,
                    devices, driver, fan_update_intervals, last_fan_updates,
                    devicesOrder, lastUpdatesOrder, next_fan_update_device,
                    next_fan_update_time, sleepStart, now, dmPc, cancelled,
                    dmResult, dmHandled, dmQueue, cmQueue, dbusQueue,
                    errQueue, dmReply, cmReply, dbusReply, dmWait, dbusWait,
                    smPc, smUuids, smStep, smResult, dbusTodo, dbusObjects,
                    dbusName, dbusResult, dmLog >>
    /\ UNCHANGED << curveVars, fanVars >>

DbusStep ==
    \/ DbusConnect
    \/ DbusSend
    \/ DbusAnswer
    \/ DbusRequestName
    \/ DbusErrSent
    \/ DbusQuit

(***************************************************************************)
(* The environment of the actors.                                          *)
(***************************************************************************)
\* Time passes until the Devices Manager's sleep expires.  The handlers
\* of the three managers take no time: the clock moves only when none of
\* them has a step to take.  The D-Bus service waits for the bus between
\* its steps, for any length of time.
ActTick ==
    /\ dmPc = "running"
    /\ ~TimerReady
    /\ ~ENABLED (DmStep \/ CmStep \/ SmStep)
    /\ sleepStart + next_fan_update_time <= MaxTime
    /\ now' = sleepStart + next_fan_update_time
    /\ UNCHANGED << cfgFile, cmPc, gpu_datas, profile_datas,
                    fan_curve_datas, config_datas, cmResult, cmSaveAge,
                    devices, driver, fan_update_intervals, last_fan_updates,
                    devicesOrder, lastUpdatesOrder, next_fan_update_device,
                    next_fan_update_time, sleepStart, dmPc, cancelled,
                    dmResult, dmHandled, dmQueue, cmQueue, dbusQueue,
                    errQueue, dmReply, cmReply, dbusReply, dmWait, dbusWait,
                    smPc, smUuids, smStep, smResult, dbusPc, dbusTodo,
                    dbusObjects, dbusName, dbusResult, dmLog >>
    /\ UNCHANGED << curveVars, fanVars >>

ActDriverFault ==
    /\ \E u \in FaultyUuids :
          /\ driver[u].healthy
          /\ driver' = [driver EXCEPT ![u].healthy = FALSE]
    /\ UNCHANGED << cfgFile, cmPc, gpu_datas, profile_datas,
                    fan_curve_datas, config_datas, cmResult, cmSaveAge,
                    devices, fan_update_intervals, last_fan_updates,
                    devicesOrder, lastUpdatesOrder, next_fan_update_device,
                    next_fan_update_time, sleepStart, now, dmPc, cancelled,
                    dmResult, dmHandled, dmQueue, cmQueue, dbusQueue,
                    errQueue, dmReply, cmReply, dbusReply, dmWait, dbusWait,
                    smPc, smUuids, smStep, smResult, dbusPc, dbusTodo,
                    dbusObjects, dbusName, dbusResult, dmLog >>
    /\ UNCHANGED << curveVars, fanVars >>

\* main(): ctrl_c, then token.cancel().
ActCancel ==
    /\ ~cancelled
    /\ cancelled' = TRUE
    /\ UNCHANGED << cfgFile, cmPc, gpu_datas, profile_datas,
                    fan_curve_datas, config_datas, cmResult, cmSaveAge,
                    devices, driver, fan_update_intervals, last_fan_updates,
                    devicesOrder, lastUpdatesOrder, next_fan_update_device,
                    next_fan_update_time, sleepStart, now, dmPc, dmResult,
                    dmHandled, dmQueue, cmQueue, dbusQueue, errQueue,
                    dmReply, cmReply, dbusReply, dmWait, dbusWait, smPc,
                    smUuids, smStep, smResult, dbusPc, dbusTodo,
                    dbusObjects, dbusName, dbusResult, dmLog >>
    /\ UNCHANGED << curveVars, fanVars >>

ActorStep == DmStep \/ CmStep \/ SmStep \/ DbusStep

NextAct ==
    \/ DmRecv
    \/ DmFanTimer
    \/ DmErrSent
    \/ DmQuit
    \/ CmStartup
    \/ CmRecv
    \/ CmQuit
    \/ SmListDevices
    \/ SmListAnswer
    \/ SmQueryConfig
    \/ SmApply
    \/ SmRecvErr
    \/ SmRecvDbus
    \/ SmDbusAnswer
    \/ SmQuit
    \/ DbusConnect
    \/ DbusSend
    \/ DbusAnswer
    \/ DbusRequestName
    \/ DbusErrSent
    \/ DbusQuit
    \/ ActTick
    \/ ActDriverFault
    \/ ActCancel

SpecActors == InitAct /\ [][NextAct]_vars

(***************************************************************************)
(* The startup apply on a machine with many boards (SpecApply): the State  *)
(* Manager applies the stored settings of every board while the driver     *)
(* may start failing.  The D-Bus service has not connected yet, the token  *)
(* is not cancelled and no fan update is due.                              *)
(***************************************************************************)
BoardNames ==
    << "GPU-01", "GPU-02", "GPU-03", "GPU-04", "GPU-05", "GPU-06", "GPU-07",
       "GPU-08", "GPU-09", "GPU-10", "GPU-11", "GPU-12", "GPU-13", "GPU-14",
       "GPU-15", "GPU-16" >>

\* The number of boards found at startup.
ApplyBoards == 13

ApplyUuids == SubSeq(BoardNames, 1, ApplyBoards)

\* Every board is bound to a profile that names a fan curve and a
\* configuration.
ApplyDoc ==
    Document(
      [i \in 1..ApplyBoards |-> GpuJson(ApplyUuids[i], "p1")],
      << ProfileJson("p1", [FanModeJsonDefault EXCEPT !.curve = Some(TRUE)],
                     Some("c1"), Some("k1"), Some(1)) >>,
      << FanCurveJson("c1", CurveInfoA.points, None, None) >>,
      << ConfigJson("k1", Some(200), None) >>)

ApplyUuidSet == {ApplyUuids[i] : i \in 1..Len(ApplyUuids)}

\* The managers are constructed; every board was found with the automatic
\* fan policy, so DevicesManager::new wrote no fan.
InitApply ==
    /\ devices = [u \in ApplyUuidSet |-> NvidiaDevice_new(PolicyAuto)]
    /\ driver = [u \in ApplyUuidSet |-> DriverDefault(PolicyAuto)]
    /\ fan_update_intervals =
           [u \in ApplyUuidSet |-> DEFAULT_FAN_UPDATE_INTERVAL]
    /\ last_fan_updates = [u \in ApplyUuidSet |-> 0]
    /\ devicesOrder = ApplyUuids
    /\ lastUpdatesOrder = ApplyUuids
    /\ now = 0
    /\ next_fan_update_device =
          schedule_fan_update(DM, lastUpdatesOrder, 0).device
    /\ next_fan_update_time =
          schedule_fan_update(DM, lastUpdatesOrder, 0).time
    /\ sleepStart = 0
    /\ dmPc = "running"
    /\ cancelled = FALSE
    /\ dmResult = [msg |-> [kind |-> "None"], reply |-> None, err |-> None]
    /\ dmHandled = 0
    /\ cfgFile = ApplyDoc
    /\ cmPc = "new"
    /\ SetTablesInit
    /\ cmResult = [msg |-> [kind |-> "None"], reply |-> None, err |-> None]
    /\ cmSaveAge = 0
    /\ dmQueue = << >>
    /\ cmQueue = << >>
    /\ dbusQueue = << >>
    /\ errQueue = << >>
    /\ dmReply = OneshotEmpty
    /\ cmReply = OneshotEmpty
    /\ dbusReply = OneshotEmpty
    /\ dmWait = None
    /\ dbusWait = None
    /\ smPc = "list_send"
    /\ smUuids = << >>
    /\ smStep = 1
    /\ smResult = [handler |-> "none", err |-> None, logged |-> FALSE]
    /\ dbusPc = "connect"
    /\ dbusTodo = << >>
    /\ dbusObjects = {}
    /\ dbusName = FALSE
    /\ dbusResult = None
    /\ dmLog = << >>
    /\ CurveIdle
    /\ FanIdle

\* The driver starts failing the calls made on every board.
ApplyDriverFault ==
    /\ \E u \in DOMAIN driver : driver[u].healthy
    /\ driver' = [u \in DOMAIN driver |-> [driver[u] EXCEPT !.healthy = FALSE]]
    /\ UNCHANGED << cfgFile, cmPc, gpu_datas, profile_datas,
                    fan_curve_datas, config_datas, cmResult, cmSaveAge,
                    devices, fan_update_intervals, last_fan_updates,
                    devicesOrder, lastUpdatesOrder, next_fan_update_device,
                    next_fan_update_time, sleepStart, now, dmPc, cancelled,
                    dmResult, dmHandled, dmQueue, cmQueue, dbusQueue,
                    errQueue, dmReply, cmReply, dbusReply, dmWait, dbusWait,
                    smPc, smUuids, smStep, smResult, dbusPc, dbusTodo,
                    dbusObjects, dbusName, dbusResult, dmLog >>
    /\ UNCHANGED << curveVars, fanVars >>

NextApply ==
    \/ DmRecv
    \/ DmErrSent
    \/ CmStartup
    \/ CmRecv
    \/ SmListDevices
    \/ SmListAnswer
    \/ SmQueryConfig
    \/ SmApply
    \/ SmRecvErr
    \/ ApplyDriverFault

SpecApply == InitApply /\ [][NextApply]_vars

(***************************************************************************)
(* Properties of the startup apply (SpecApply)                             *)
(***************************************************************************)
\* The Devices Manager waits inside tx_err.send for room in the error
\* channel, whose receiver the State Manager holds.
DmErrorSendBlocked == dmPc = "send_err" /\ ~ErrRoom /\ ~ErrClosed

\* The State Manager waits inside a send to the Devices Manager, whose
\* queue is full: the ListDevices of apply_settings, or a setting it has
\* the Configuration Manager's answer for.
SmSendToDmBlocked ==
    /\ ~DmClosed
    /\ Len(dmQueue) >= CHANNEL_CAPACITY
    /\ \/ smPc = "list_send"
       \/ /\ smPc = "cfg_wait"
          /\ cmReply.st = "sent"
          /\ IsSome(ApplyMessage(Head(smUuids), cmReply.answer))

\* The same for a query to the Configuration Manager.
SmSendToCmBlocked ==
    /\ ~CmClosed
    /\ Len(cmQueue) >= CHANNEL_CAPACITY
    /\ smPc = "cfg_send"

\* C28: in no reachable state does the State Manager wait in a send to a
\* manager whose queue is full while that manager waits in a send to the
\* full error channel.
NoQueueDeadlock ==
    /\ ~(SmSendToDmBlocked /\ DmErrorSendBlocked)
    /\ ~(SmSendToCmBlocked /\ ~ErrRoom /\ ~ENABLED CmRecv)

(***************************************************************************)
(* Properties of the four actors together (SpecActors).                    *)
(***************************************************************************)
\* The setting messages the Devices Manager has received, in the order it
\* received them: those it has handled, then those still in its channel.
DmReceived ==
    LET sel == SelectSeq(dmQueue, LAMBDA m : m.kind \in SettingKinds)
    IN  dmLog \o [i \in 1..Len(sel) |->
                    [kind |-> sel[i].kind, uuid |-> sel[i].uuid]]

\* In log, every `later` message for device u has a `sooner` message for
\* u before it.
Precedes(log, sooner, later, u) ==
    \A i \in 1..Len(log) :
        log[i] = [kind |-> later, uuid |-> u] =>
            \E j \in 1..(i - 1) : log[j] = [kind |-> sooner, uuid |-> u]

\* The profile of device u resolves to a fan curve.
ResolvesToCurve(u) ==
    LET r == handle_get_message(CM, [kind |-> "GetFanCurve", uuid |-> u])
    IN  IsSome(r.reply) /\ IsSome(Unwrap(r.reply).fan_curve)

\* C8 (startup apply order): for each device, among the messages the
\* Devices Manager has received, and among those it has handled, a
\* SetDeviceFanMode comes after a SetDeviceFanUpdateInterval for the same
\* device and, when the device's profile resolves to a curve, after a
\* SetDeviceFanCurve for it.
StartupApplyOrder ==
    \A u \in DevUuids :
        /\ Precedes(DmReceived, "SetDeviceFanUpdateInterval",
                    "SetDeviceFanMode", u)
        /\ Precedes(dmLog, "SetDeviceFanUpdateInterval",
                    "SetDeviceFanMode", u)
        /\ ResolvesToCurve(u) =>
              /\ Precedes(DmReceived, "SetDeviceFanCurve",
                          "SetDeviceFanMode", u)
              /\ Precedes(dmLog, "SetDeviceFanCurve", "SetDeviceFanMode", u)

\* C8 witness: the profile of GPU-a resolves to a curve and the Devices
\* Manager has handled its SetDeviceFanCurve, SetDeviceFanUpdateInterval
\* and SetDeviceFanMode, and the fan mode of GPU-b too.
StartupApplyOrderWitness ==
    /\ ResolvesToCurve("GPU-a")
    /\ \E i, j, k \in 1..Len(dmLog) :
          /\ i < j /\ j < k
          /\ dmLog[i] = [kind |-> "SetDeviceFanCurve", uuid |-> "GPU-a"]
          /\ dmLog[j] = [kind |-> "SetDeviceFanUpdateInterval",
                         uuid |-> "GPU-a"]
          /\ dmLog[k] = [kind |-> "SetDeviceFanMode", uuid |-> "GPU-a"]
    /\ \E k \in 1..Len(dmLog) :
          dmLog[k] = [kind |-> "SetDeviceFanMode", uuid |-> "GPU-b"]
    /\ devices["GPU-a"].fan_mode = FanCurveMode
    /\ devices["GPU-a"].fan_curve = HysteresisCurve_from_info(CurveInfoA)

\* C9 (no requester blocks indefinitely), as claimed: whenever a requester
\* awaits a one-shot reply that has not been sent or dropped yet, the
\* actors that owe the reply can still take a step.
NoRequesterBlocks ==
    /\ (smPc \in {"list_wait", "dbus_wait"} /\ dmReply = OneshotEmpty)
          => ENABLED DmStep
    /\ (smPc = "cfg_wait" /\ cmReply = OneshotEmpty) => ENABLED CmStep
    /\ (dbusPc = "wait" /\ dbusReply = OneshotEmpty)
          => ENABLED (SmStep \/ DmStep \/ CmStep)

\* Every actor has left its run loop (a panicked task has ended too).
AllExited ==
    /\ dmPc = "exited"
    /\ cmPc \in {"exited", "panicked"}
    /\ smPc = "exited"
    /\ dbusPc = "exited"

\* C10 (cancellation terminates every actor), as claimed: once the token
\* is cancelled, as long as an actor has not left its run loop some actor
\* can still take a step.
CancellationTerminates ==
    (cancelled /\ ~AllExited) => ENABLED ActorStep

(***************************************************************************)
(* Error handling of the Devices Manager (SpecDev).                        *)
(***************************************************************************)
\* C11 (best-effort shutdown), as claimed: once the cancel branch has run
\* quit_manager, whatever it returned, every device whose driver accepts
\* calls has been restored: fan mode Auto and the automatic fan policy.
BestEffortShutdown ==
    (dmPc = "exited" /\ dmResult.msg.kind = "Quit") =>
        \A u \in DOMAIN devices :
            driver[u].healthy =>
                devices[u].fan_mode = FanAuto /\ driver[u].policy = PolicyAuto

\* C12 (a fan write failure is surfaced and the fan loop continues), as
\* claimed: while the manager runs and no message has been handled, every
\* device whose driver accepts calls has had its fan updated within its
\* interval, whatever happens to the updates of the other devices.
FanFailureIsolated ==
    (dmPc = "running" /\ ~cancelled /\ dmHandled = 0) =>
        \A u \in DOMAIN last_fan_updates :
            driver[u].healthy =>
                now - last_fan_updates[u] <= fan_update_intervals[u] + Epsilon

\* The messages of the Devices Manager that name a device.
DmUuidKinds ==
    {"GetDeviceInfo", "GetDeviceVendorInfo", "GetDeviceData",
     "GetDeviceVendorData", "SetDeviceDataUpdateInterval", "SetDeviceFanMode",
     "SetDeviceFanCurve", "SetDeviceFanUpdateInterval",
     "ApplyDeviceGpuConfig"}

\* C13 (unknown device), as claimed: the three maps of the manager have
\* the same keys in every state, and the message handled last, when it
\* names a device that is not in the device set, failed with InvalidDevice.
UnknownDeviceRejected ==
    /\ DOMAIN fan_update_intervals = DOMAIN devices
    /\ DOMAIN last_fan_updates = DOMAIN devices
    /\ (/\ dmResult.msg.kind \in DmUuidKinds
        /\ dmResult.msg.uuid \notin DOMAIN devices) =>
            dmResult.err = Some("InvalidDevice")

\* C26: once SetDeviceFanUpdateInterval for a board has been handled, the
\* sleep of the loop ends no later than that board's new deadline, its last
\* fan update plus the new interval (or at once when that is past).
DeadlinesRecomputed ==
    (/\ dmPc = "running"
     /\ dmResult.msg.kind = "SetDeviceFanUpdateInterval"
     /\ dmResult.msg.uuid \in DOMAIN last_fan_updates)
    => LET d == dmResult.msg.uuid
           deadline == last_fan_updates[d] + fan_update_intervals[d]
       IN  sleepStart + next_fan_update_time
               <= IF deadline > sleepStart THEN deadline ELSE sleepStart

\* The deadline of a board: its last fan update plus its interval.
FanDeadline(u) == last_fan_updates[u] + fan_update_intervals[u]

\* The sleep branch updates the scheduled board alone, moves its last
\* update time to the current time exactly when the update succeeded, and
\* leaves the other boards and their last update times as they were.
OneUpdateEffect ==
    [][ DevFanTimer =>
            LET d == next_fan_update_device
            IN  /\ last_fan_updates'[d] =
                       IF dmResult'.err = None THEN now
                       ELSE last_fan_updates[d]
                /\ \A u \in DOMAIN last_fan_updates \ {d} :
                       /\ last_fan_updates'[u] = last_fan_updates[u]
                       /\ driver'[u] = driver[u]
                       /\ devices'[u] = devices[u]
                /\ next_fan_update_device' =
                       schedule_fan_update(DM, lastUpdatesOrder, now).device'
                /\ next_fan_update_time' =
                       schedule_fan_update(DM, lastUpdatesOrder, now).time' ]_vars

\* C27: on each expiry of the sleep one board is updated, its deadline is
\* the smallest of all boards, its last update time moves to the current
\* time only when the update succeeded, and no other board's does.
OneUpdatePerExpiry ==
    [][ DevFanTimer =>
            LET d == next_fan_update_device
            IN  /\ \A u \in DOMAIN last_fan_updates :
                       FanDeadline(d) <= FanDeadline(u)
                /\ last_fan_updates'[d] =
                       IF dmResult'.err = None THEN now
                       ELSE last_fan_updates[d]
                /\ \A u \in DOMAIN last_fan_updates \ {d} :
                       last_fan_updates'[u] = last_fan_updates[u] ]_vars

(***************************************************************************)
(* Fan curves (SpecCurve): LinearCurve and HysteresisCurve<LinearCurve>.   *)
(***************************************************************************)
(***************************************************************************)
(* One curve: a LinearCurve built by LinearCurve::new, queried and changed *)
(* in any order, then moved into a HysteresisCurve by from_curve, which is *)
(* queried and changed in any order.                                       *)
(***************************************************************************)
\* 2^24 - 4: from here on an f32 does not hold every integer times 100.
BigTemp == 16777212

\* The point lists given to LinearCurve::new.
InitialPoints ==
    {<< <<40, 30>>, <<60, 70>> >>,
     << <<0, 58>>, <<22, 0>> >>,
     << <<BigTemp, 90>>, <<BigTemp + 2, 90>> >>}

\* The thresholds given to from_curve: << lower, upper >>.
Thresholds == {<<3, 3>>, <<2, 4>>}

\* The temperatures get_speed is asked for on the linear curve.
LinearTemps == {11, 39, 50, 61, BigTemp + 1}

\* The temperatures get_speed is asked for on the hysteresis curve.
HysteresisTemps == {50, 51, 52, 53}

\* The points given to add_point and update_point.
NewPoints == {<<50, 200>>, <<40, 35>>}

\* The temperatures given to remove_point.
RemoveTemps == {40, 22}

\* The longest sequence of get_speed calls on the hysteresis curve.
MaxCalls == 4

\* The most changes made to the points of one curve.
MaxCurveOps == 1

InitCurve ==
    /\ \E list \in InitialPoints :
          linear = Some(LinearCurve_from_points(list))
    /\ hysteresis = None
    /\ curveResult = [op |-> "new"]
    /\ curveCalls = << >>
    /\ curveOps = 0
    /\ CfgIdle /\ DevIdle /\ ActIdle /\ FanIdle

\* LinearCurve::get_speed
LinearGetSpeed ==
    /\ IsSome(linear)
    /\ \E temp \in LinearTemps :
          curveResult' = [op |-> "get_speed", temp |-> temp,
                          speed |->
                              LinearCurve_get_speed(Unwrap(linear), temp)]
    /\ UNCHANGED << linear, hysteresis, curveCalls, curveOps >>
    /\ UNCHANGED << cfgVars, devVars, actVars, fanVars >>

\* A change of the points of the linear curve.
LinearChange(op, curve) ==
    /\ IsSome(linear)
    /\ curveOps < MaxCurveOps
    /\ linear' = Some(curve)
    /\ curveResult' = [op |-> op]
    /\ curveOps' = curveOps + 1
    /\ UNCHANGED << hysteresis, curveCalls >>
    /\ UNCHANGED << cfgVars, devVars, actVars, fanVars >>

\* LinearCurve::add_point
LinearAddPoint ==
    \E point \in NewPoints :
        LinearChange("add_point",
                     LinearCurve_add_point(Unwrap(linear), point))

\* LinearCurve::update_point
LinearUpdatePoint ==
    \E point \in NewPoints :
        LinearChange("update_point",
                     LinearCurve_update_point(Unwrap(linear), point))

\* LinearCurve::remove_point
LinearRemovePoint ==
    \E temp \in RemoveTemps :
        LinearChange("remove_point",
                     LinearCurve_remove_point(Unwrap(linear), temp))

\* HysteresisCurve::from_curve: the linear curve moves into the new curve.
HysteresisFromCurve ==
    /\ IsSome(linear)
    /\ \E th \in Thresholds :
          hysteresis' =
              Some(HysteresisCurve_from_curve(Unwrap(linear), th[1], th[2]))
    /\ linear' = None
    /\ curveResult' = [op |-> "from_curve"]
    /\ UNCHANGED << curveCalls, curveOps >>
    /\ UNCHANGED << cfgVars, devVars, actVars, fanVars >>

\* HysteresisCurve::get_speed
HysteresisGetSpeed ==
    /\ IsSome(hysteresis)
    /\ Len(curveCalls) < MaxCalls
    /\ \E temp \in HysteresisTemps :
          LET r == HysteresisCurve_get_speed(Unwrap(hysteresis), temp)
          IN  /\ hysteresis' = Some(r.h)
              /\ curveResult' = [op |-> "get_speed", temp |-> temp,
                                 speed |-> r.speed,
                                 before |-> Unwrap(hysteresis).last_update]
              /\ curveCalls' = Append(curveCalls, << temp, r.speed >>)
    /\ UNCHANGED << linear, curveOps >>
    /\ UNCHANGED << cfgVars, devVars, actVars, fanVars >>

\* A change of the points of the curve inside the hysteresis curve.
HysteresisChange(op, curve) ==
    /\ IsSome(hysteresis)
    /\ curveOps < MaxCurveOps
    /\ hysteresis' = Some([Unwrap(hysteresis) EXCEPT !.curve = curve])
    /\ curveResult' = [op |-> op]
    /\ curveOps' = curveOps + 1
    /\ UNCHANGED << linear, curveCalls >>
    /\ UNCHANGED << cfgVars, devVars, actVars, fanVars >>

\* HysteresisCurve::add_point
HysteresisAddPoint ==
    \E point \in NewPoints :
        HysteresisChange("add_point",
            LinearCurve_add_point(Unwrap(hysteresis).curve, point))

\* HysteresisCurve::update_point: it calls add_point of the curve inside.
HysteresisUpdatePoint ==
    \E point \in NewPoints :
        HysteresisChange("update_point",
            LinearCurve_add_point(Unwrap(hysteresis).curve, point))

\* HysteresisCurve::remove_point
HysteresisRemovePoint ==
    \E temp \in RemoveTemps :
        HysteresisChange("remove_point",
            LinearCurve_remove_point(Unwrap(hysteresis).curve, temp))

NextCurve ==
    \/ LinearGetSpeed
    \/ LinearAddPoint
    \/ LinearUpdatePoint
    \/ LinearRemovePoint
    \/ HysteresisFromCurve
    \/ HysteresisGetSpeed
    \/ HysteresisAddPoint
    \/ HysteresisUpdatePoint
    \/ HysteresisRemovePoint

SpecCurve == InitCurve /\ [][NextCurve]_vars

(***************************************************************************)
(* Properties of the fan curves (SpecCurve).                               *)
(***************************************************************************)
\* The call made last was get_speed on the hysteresis curve.
HysteresisCalled == IsSome(hysteresis) /\ curveResult.op = "get_speed"

\* The call made last was get_speed on the linear curve.
LinearCalled == IsSome(linear) /\ curveResult.op = "get_speed"

\* The speed of the curve inside the hysteresis curve at temp.
Inner(temp) == LinearCurve_get_speed(Unwrap(hysteresis).curve, temp)

\* C14 (hysteresis stability): when get_speed(t) is called with a recorded
\* observation (t0, s0) and t is inside the deadband (t > t0 and
\* t - t0 < upper, or t <= t0 and t0 - t < lower), it returns s0 and the
\* recorded observation stays as it was, after any sequence of calls.
HysteresisStability ==
    (HysteresisCalled /\ IsSome(curveResult.before)) =>
        LET h == Unwrap(hysteresis)
            t == curveResult.temp
            t0 == Unwrap(curveResult.before)[1]
            s0 == Unwrap(curveResult.before)[2]
        IN  (\/ (t > t0 /\ t - t0 < h.upper_threshold)
             \/ (t <= t0 /\ t0 - t < h.lower_threshold)) =>
                /\ curveResult.speed = s0
                /\ h.last_update = curveResult.before

\* C14 witness: after an observation at 50 degrees, get_speed(53) with
\* thresholds (lower, upper) = (2, 4) is inside the deadband and returned
\* the recorded speed, which is not the speed of the curve at 53 degrees.
HysteresisStabilityWitness ==
    /\ HysteresisCalled
    /\ Unwrap(hysteresis).upper_threshold = 4
    /\ Len(curveCalls) >= 2
    /\ curveResult.temp = 53
    /\ IsSome(curveResult.before)
    /\ Unwrap(curveResult.before)[1] = 50
    /\ curveResult.speed = Unwrap(curveResult.before)[2]
    /\ curveResult.speed # Inner(53)

\* C15 (hysteresis resampling): with no recorded observation get_speed(t)
\* returns the speed of the inner curve at t and records it; with a
\* recorded observation (t_last, s_last) it does so when |t - t_last| is at
\* least the threshold (upper when t > t_last, lower otherwise), and
\* otherwise returns s_last and records nothing.  With thresholds 3 and 3
\* and an unchanged curve, the calls 50, 52, 53, 51 return inner(50),
\* inner(50), inner(53), inner(53).
HysteresisResampling ==
    /\ HysteresisCalled =>
          LET h == Unwrap(hysteresis)
              t == curveResult.temp
              resampled ==
                  /\ curveResult.speed = Inner(t)
                  /\ h.last_update = Some(<< t, Inner(t) >>)
          IN  IF curveResult.before = None THEN resampled
              ELSE LET t_last == Unwrap(curveResult.before)[1]
                       s_last == Unwrap(curveResult.before)[2]
                       threshold == IF t - t_last > 0 THEN h.upper_threshold
                                    ELSE h.lower_threshold
                   IN  IF Abs(t - t_last) >= threshold THEN resampled
                       ELSE /\ curveResult.speed = s_last
                            /\ h.last_update = curveResult.before
    /\ (/\ IsSome(hysteresis)
        /\ curveOps = 0
        /\ Unwrap(hysteresis).lower_threshold = 3
        /\ Unwrap(hysteresis).upper_threshold = 3
        /\ [i \in 1..Len(curveCalls) |-> curveCalls[i][1]]
              = << 50, 52, 53, 51 >>) =>
          [i \in 1..Len(curveCalls) |-> curveCalls[i][2]]
              = << Inner(50), Inner(50), Inner(53), Inner(53) >>

\* C15 witness: on the curve [(40,30),(60,70)] with thresholds 3 and 3 the
\* calls 50, 52, 53, 51 have returned 50, 50, 56, 56.
HysteresisResamplingWitness ==
    /\ IsSome(hysteresis)
    /\ Unwrap(hysteresis).lower_threshold = 3
    /\ Unwrap(hysteresis).upper_threshold = 3
    /\ curveCalls = << <<50, 50>>, <<52, 50>>, <<53, 56>>, <<51, 56>> >>
    /\ Inner(51) = 52

\* n / d rounded to the nearest integer (0 <= n, 0 < d).
RoundDiv(n, d) == IF 2 * (n % d) >= d THEN n \div d + 1 ELSE n \div d

\* C16 (linear interpolation), as claimed: for a temperature t that is not
\* a key and has a point (x1, y1) before and a point (x2, y2) after it,
\* LinearCurve::get_speed(t) is
\* round(((y1 - y2) * t + x1 * y2 - x2 * y1) / (x1 - x2)) clamped to 0..100.
LinearInterpolation ==
    LinearCalled =>
        LET curve == Unwrap(linear)
            t == curveResult.temp
            before == {x \in DOMAIN curve : x < t}
            after == {x \in DOMAIN curve : x > t}
            x1 == SetMax(before)
            y1 == curve[x1]
            x2 == SetMin(after)
            y2 == curve[x2]
            n == (y2 - y1) * t + x2 * y1 - x1 * y2
        IN  (t \notin DOMAIN curve /\ before # {} /\ after # {}) =>
                curveResult.speed = ClampU8(RoundDiv(n, x2 - x1))

\* C17 (LinearCurve totality), as claimed: for a curve with at least one
\* point, whatever add_point, update_point and remove_point calls built
\* it, get_speed returns a value in 0..100.
LinearCurveTotality ==
    (LinearCalled /\ DOMAIN Unwrap(linear) # {}) =>
        curveResult.speed \in 0..100

(***************************************************************************)
(* Properties of the D-Bus service (SpecActors)                            *)
(***************************************************************************)
\* The object of a device is registered: all its interfaces are at its
\* path.
ObjectRegistered(uuid) ==
    \A i \in 1..Len(ObjectInterfaces) :
        << uuid, ObjectInterfaces[i] >> \in dbusObjects

InitializeFailed == IsSome(dbusResult) /\ dbusResult # Some("Ok")

\* C18: the connection owns the service name only when the object of every
\* device listed by the State Manager is registered, and never when
\* initialize_service returned an error (a failed query to the State
\* Manager or a refused object registration).
IpcPublicationOrder ==
    /\ dbusName =>
           \A i \in 1..Len(devicesOrder) : ObjectRegistered(devicesOrder[i])
    /\ InitializeFailed => ~dbusName

\* The name was acquired with the objects of two devices registered.
IpcPublicationOrderWitness ==
    /\ dbusName
    /\ Len(devicesOrder) = 2
    /\ \A i \in 1..Len(devicesOrder) : ObjectRegistered(devicesOrder[i])

(***************************************************************************)
(* Properties of saving and loading the configuration (SpecCfg)            *)
(***************************************************************************)
SaveConfigWritten ==
    cmResult.msg.kind = "SaveConfig" /\ cmResult.err = None

\* C19: the document a successful SaveConfig has written holds no profile
\* entry named "default", whatever the tables are.
SaveOmitsDefault ==
    SaveConfigWritten =>
        \A i \in 1..Len(cfgFile.profiles) :
            cfgFile.profiles[i].name # DEFAULT_PROFILE_NAME

\* A document was written while the tables held the default profile and
\* another one.
SaveOmitsDefaultWitness ==
    /\ SaveConfigWritten
    /\ DEFAULT_PROFILE_NAME \in DOMAIN profile_datas
    /\ Len(cfgFile.profiles) >= 1

\* The startup load has just ended without an error or a panic.
ConfigLoaded ==
    /\ cmResult.msg.kind = "Startup"
    /\ cmResult.err = None
    /\ cmPc = "running"

\* Entry i of the array is the first of several entries with its key.
FirstOfSeveral(s, Key(_), i) ==
    /\ s[i].valid
    /\ \A h \in 1..(i - 1) : s[h].valid => Key(s[h]) # Key(s[i])
    /\ \E h \in (i + 1)..Len(s) : s[h].valid /\ Key(s[h]) = Key(s[i])

\* C20: after the load, of several entries of the file with the same GPU
\* uuid, profile name, fan-curve name or config name the table holds the
\* first one, and the default profile is the built-in one.
FirstDefinitionWins ==
    ConfigLoaded =>
        /\ \A i \in 1..Len(cfgFile.gpus) :
              LET j == cfgFile.gpus[i]
              IN  FirstOfSeveral(cfgFile.gpus, LAMBDA e : e.uuid, i) =>
                      /\ j.uuid \in DOMAIN gpu_datas
                      /\ gpu_datas[j.uuid] =
                             [uuid |-> j.uuid, profile |-> j.profile]
        /\ \A i \in 1..Len(cfgFile.profiles) :
              LET j == cfgFile.profiles[i]
              IN  (/\ FirstOfSeveral(cfgFile.profiles, LAMBDA e : e.name, i)
                   /\ j.name # DEFAULT_PROFILE_NAME) =>
                      /\ j.name \in DOMAIN profile_datas
                      /\ ProfileData_try_from(j) =
                             Some(profile_datas[j.name])
        /\ \A i \in 1..Len(cfgFile.fan_curves) :
              LET j == cfgFile.fan_curves[i]
              IN  FirstOfSeveral(cfgFile.fan_curves, LAMBDA e : e.name, i) =>
                      /\ j.name \in DOMAIN fan_curve_datas
                      /\ fan_curve_datas[j.name] = FanCurveInfo_try_from(j)
        /\ \A i \in 1..Len(cfgFile.configs) :
              LET j == cfgFile.configs[i]
              IN  FirstOfSeveral(cfgFile.configs, LAMBDA e : e.name, i) =>
                      /\ j.name \in DOMAIN config_datas
                      /\ config_datas[j.name] = GpuConfig_try_from(j)
        /\ DEFAULT_PROFILE_NAME \in DOMAIN profile_datas
        /\ profile_datas[DEFAULT_PROFILE_NAME] = ProfileDataDefault

(***************************************************************************)
(* Properties of the error handling of the actors (SpecActors)             *)
(***************************************************************************)
\* C22: an error returned by a handler of the State Manager (apply_settings
\* or parse_dbus_message, its translation of D-Bus service messages) is
\* logged by the State Manager, as the errors of the other actors are.
HandlerErrorsSurfaced == smResult.err # None => smResult.logged

(***************************************************************************)
(* More properties of the Configuration Manager (SpecCfg)                  *)
(***************************************************************************)
\* C23: the configuration file changes only in a step that handles
\* SaveConfig, and a step that handles SaveConfig leaves the four tables as
\* they were.
ExplicitSaveOnly ==
    [][/\ cfgFile' # cfgFile => cmResult'.msg.kind = "SaveConfig"
       /\ cmResult'.msg.kind = "SaveConfig" =>
              UNCHANGED << gpu_datas, profile_datas, fan_curve_datas,
                           config_datas >>]_vars

\* A SaveConfig wrote the tables, which hold a GPU binding and a fan curve,
\* and they are as the document says.
ExplicitSaveOnlyWitness ==
    /\ SaveConfigWritten
    /\ cfgFile.kind = "json"
    /\ Len(cfgFile.gpus) = Cardinality(DOMAIN gpu_datas)
    /\ Len(cfgFile.fan_curves) = Cardinality(DOMAIN fan_curve_datas)
    /\ DOMAIN gpu_datas # {}
    /\ DOMAIN fan_curve_datas # {}

\* The step writes the fan of board u: its speed or its control policy.
FanWritten(u) ==
    \/ driver'[u].fan_speed # driver[u].fan_speed
    \/ driver'[u].policy # driver[u].policy

\* C25: every write to a board's fan is made within one step of the Devices
\* Manager taken from its select!, which is one message handler, one fan
\* tick or the shutdown, and a handler or tick writes only the board it is
\* for; no other actor and no suspended handler writes a fan.
FanSerialization ==
    [][ \A u \in DOMAIN driver :
            FanWritten(u) =>
                /\ dmPc = "running"
                /\ \/ DmRecv /\ Head(dmQueue).uuid = u
                   \/ DmFanTimer /\ next_fan_update_device = u
                   \/ DmQuit ]_vars

\* A board whose fan mode was set by a message has since had its speed
\* written by a fan tick.
FanSerializationWitness ==
    \E i \in 1..Len(dmLog) :
        /\ dmLog[i].kind = "SetDeviceFanMode"
        /\ dmLog[i].uuid \in DOMAIN driver
        /\ driver[dmLog[i].uuid].policy = PolicyManual
        /\ driver[dmLog[i].uuid].fan_speed # None
        /\ last_fan_updates[dmLog[i].uuid] > 0

(***************************************************************************)
(* One NvidiaDevice on its own (SpecFan): the GpuDevice operations on the  *)
(* fan, called in any order while the sensor and the driver change.        *)
(***************************************************************************)
\* The policies the board may be found under, the modes and curves asked
\* for, and the temperatures the sensor reads (None: the read fails).
FoundPolicies == {PolicyAuto, PolicyManual}

FanModes == {FanAuto, FanCurveMode, FanManual(40), FanManual(100)}

FanCurveInfos == {CurveInfoA, CurveInfoB}

SensorReadings == {None, Some(0), Some(45), Some(50), Some(53), Some(200)}

\* NvidiaDevice::new
InitFan ==
    /\ \E policy \in FoundPolicies :
          /\ nvDriver = Some(DriverDefault(policy))
          /\ nvDevice = Some(NvidiaDevice_new(policy))
    /\ nvResult = [op |-> "new"]
    /\ CfgIdle /\ DevIdle /\ ActIdle /\ CurveIdle

\* GpuDevice::set_fan_curve, with a curve built as the State Manager
\* builds it.
NvSetFanCurve ==
    /\ \E info \in FanCurveInfos :
          nvDevice' = Some(set_fan_curve(Unwrap(nvDevice),
                                         HysteresisCurve_from_info(info)))
    /\ nvResult' = [op |-> "set_fan_curve"]
    /\ UNCHANGED nvDriver
    /\ UNCHANGED << cfgVars, devVars, actVars, curveVars >>

\* GpuDevice::set_fan_mode
NvSetFanMode ==
    /\ \E fan_mode \in FanModes :
          LET r == set_fan_mode(Unwrap(nvDevice), Unwrap(nvDriver), fan_mode)
          IN  /\ nvDevice' = Some(r.dev)
              /\ nvDriver' = Some(r.drv)
              /\ nvResult' = [op |-> "set_fan_mode", fan_mode |-> fan_mode,
                              err |-> r.err,
                              before |-> Unwrap(nvDevice).fan_mode]
    /\ UNCHANGED << cfgVars, devVars, actVars, curveVars >>

\* GpuDevice::update_fan.  The write the driver receives during the call is
\* observed by making the call on a driver that holds no fan speed.
NvUpdateFan ==
    /\ LET dev == Unwrap(nvDevice)
           drv == Unwrap(nvDriver)
       IN  \E r \in {update_fan(dev, drv)},
              probe \in {update_fan(dev, [drv EXCEPT !.fan_speed = None])} :
           /\ nvDevice' = Some(r.dev)
           /\ nvDriver' = Some(r.drv)
           /\ nvResult' = [op |-> "update_fan", err |-> r.err,
                           wrote |-> probe.drv.fan_speed,
                           fan_mode |-> dev.fan_mode,
                           fan_curve |-> dev.fan_curve,
                           temperature |-> drv.temperature]
    /\ UNCHANGED << cfgVars, devVars, actVars, curveVars >>

\* The sensor reads another temperature, or stops answering.
NvSensor ==
    /\ \E reading \in SensorReadings :
          /\ reading # Unwrap(nvDriver).temperature
          /\ nvDriver' = Some([Unwrap(nvDriver) EXCEPT
                                   !.temperature = reading])
    /\ UNCHANGED << nvDevice, nvResult >>
    /\ UNCHANGED << cfgVars, devVars, actVars, curveVars >>

\* Every NVML call on the board starts to fail, or works again.
NvDriverFault ==
    /\ nvDriver' = Some([Unwrap(nvDriver) EXCEPT !.healthy = ~@])
    /\ UNCHANGED << nvDevice, nvResult >>
    /\ UNCHANGED << cfgVars, devVars, actVars, curveVars >>

NextFan ==
    \/ NvSetFanCurve
    \/ NvSetFanMode
    \/ NvUpdateFan
    \/ NvSensor
    \/ NvDriverFault

SpecFan == InitFan /\ [][NextFan]_vars

(***************************************************************************)
(* Properties of one device (SpecFan)                                      *)
(***************************************************************************)
FanUpdated == nvResult.op = "update_fan" /\ nvResult.err = None

\* C21: a fan update that succeeded wrote nothing when the recorded mode
\* was Auto, wrote the speed p when it was Manual(p), and when it was Curve
\* wrote the speed the device's curve gives for the temperature read, or
\* for 110 when the read failed.
FanUpdateByMode ==
    FanUpdated =>
        IF nvResult.fan_mode.kind = "Auto" THEN nvResult.wrote = None
        ELSE IF nvResult.fan_mode.kind = "Manual"
        THEN nvResult.wrote = Some(nvResult.fan_mode.speed)
        ELSE LET temp == IF nvResult.temperature = None THEN 110
                         ELSE Unwrap(nvResult.temperature)
             IN  nvResult.wrote =
                     Some(FanCurve_get_speed(nvResult.fan_curve, temp).speed)

\* A curve-driven update was made while the sensor could not be read, on a
\* curve that gives another speed at 110 degrees than at 0.
FanUpdateByModeWitness ==
    /\ FanUpdated
    /\ nvResult.fan_mode.kind = "Curve"
    /\ nvResult.temperature = None
    /\ nvResult.wrote = Some(70)

\* C29: the recorded mode of the device is Auto exactly when the driver's
\* fan policy is the automatic one; set_fan_mode that succeeded recorded
\* the mode asked for and wrote the policy that goes with it, and
\* set_fan_mode that failed left the recorded mode as it was.
FanModeMatchesPolicy ==
    LET dev == Unwrap(nvDevice)
        drv == Unwrap(nvDriver)
    IN  /\ dev.fan_mode.kind = "Auto" <=> drv.policy = PolicyAuto
        /\ nvResult.op = "set_fan_mode" =>
               IF nvResult.err = None
               THEN /\ dev.fan_mode = nvResult.fan_mode
                    /\ drv.policy = IF nvResult.fan_mode.kind = "Auto"
                                    THEN PolicyAuto ELSE PolicyManual
               ELSE dev.fan_mode = nvResult.before

\* set_fan_mode failed on a device whose mode differs from the one asked
\* for, and the mode stayed.
FanModeMatchesPolicyWitness ==
    /\ nvResult.op = "set_fan_mode"
    /\ nvResult.err # None
    /\ nvResult.fan_mode.kind = "Auto"
    /\ Unwrap(nvDevice).fan_mode.kind = "Manual"
    /\ Unwrap(nvDriver).policy = PolicyManual

\* C30: a device in mode Curve on which set_fan_curve was never called (its
\* curve is still the linear one that new installed) writes 100 at every
\* fan update, whatever the sensor reads.
DefaultCurveWritesFull ==
    (/\ FanUpdated
     /\ nvResult.fan_mode.kind = "Curve"
     /\ nvResult.fan_curve.kind = "Linear") =>
        nvResult.wrote = Some(100)

\* Such an update was made at 0 degrees.
DefaultCurveWritesFullWitness ==
    /\ FanUpdated
    /\ nvResult.fan_mode.kind = "Curve"
    /\ nvResult.fan_curve.kind = "Linear"
    /\ nvResult.temperature = Some(0)
    /\ nvResult.wrote = Some(100)

(***************************************************************************)
(* The startup load on its own (SpecLoad): a file with two profile         *)
(* entries, the first with any fan_mode object, is loaded by a fresh       *)
(* Configuration Manager.                                                  *)
(***************************************************************************)
\* The values of a flag of the fan_mode object and of manaul_speed (a u8).
JsonFlags == {None, Some(TRUE), Some(FALSE)}

JsonSpeeds == {None, Some(0), Some(40), Some(100), Some(101), Some(255)}

FanModeJsons ==
    [auto : JsonFlags, curve : JsonFlags, manual : JsonFlags,
     manaul_speed : JsonSpeeds]

\* The file: profile "p1" with the fan_mode object, then profile "p2".
FanModeDoc(fan_mode) ==
    Document(
      << >>,
      << ProfileJson("p1", fan_mode, None, None, None),
         ProfileJson("p2", [FanModeJsonDefault EXCEPT !.curve = Some(TRUE)],
                     None, None, None) >>,
      << >>,
      << >>)

InitLoad ==
    /\ \E fan_mode \in FanModeJsons : cfgFile = FanModeDoc(fan_mode)
    /\ cmPc = "new"
    /\ SetTablesInit
    /\ cmResult = [msg |-> [kind |-> "None"], reply |-> None, err |-> None]
    /\ cmSaveAge = 0
    /\ DevIdle
    /\ ActIdle
    /\ CurveIdle
    /\ FanIdle

NextLoad == CfgStartup

SpecLoad == InitLoad /\ [][NextLoad]_vars

(***************************************************************************)
(* Properties of the startup load (SpecLoad)                               *)
(***************************************************************************)
\* The flags of a fan_mode object that are true; absent counts as false.
TrueFlags(fan_mode) ==
    {k \in {"auto", "curve", "manual"} : fan_mode[k] = Some(TRUE)}

\* C24: the profile entry is kept exactly when exactly one of auto, curve
\* and manual is true and, for manual, manaul_speed is present; its mode is
\* then Auto, Curve or Manual(min(speed, 100)); otherwise the entry is
\* dropped, and in both cases the entry after it is loaded.
FanModeParsing ==
    ConfigLoaded =>
        LET fan_mode == cfgFile.profiles[1].fan_mode
            flags == TrueFlags(fan_mode)
            accepted == /\ Cardinality(flags) = 1
                        /\ "manual" \in flags => fan_mode.manaul_speed # None
            speed == Unwrap(fan_mode.manaul_speed)
        IN  /\ accepted <=> "p1" \in DOMAIN profile_datas
            /\ accepted =>
                   profile_datas["p1"].fan_mode =
                       IF "auto" \in flags THEN FanAuto
                       ELSE IF "curve" \in flags THEN FanCurveMode
                       ELSE FanManual(IF speed < 100 THEN speed ELSE 100)
            /\ "p2" \in DOMAIN profile_datas
            /\ profile_datas["p2"].fan_mode = FanCurveMode

\* A manual entry with a speed above 100 was loaded and clamped.
FanModeParsingWitness ==
    /\ ConfigLoaded
    /\ cfgFile.profiles[1].fan_mode.manaul_speed = Some(255)
    /\ "p1" \in DOMAIN profile_datas
    /\ profile_datas["p1"].fan_mode = FanManual(100)

(***************************************************************************)
(* apply_gpu_config on one NvidiaDevice (SpecGpuConfig): configurations    *)
(* with every combination of present fields, applied to a driver that may  *)
(* refuse any of the calls.                                                *)
(***************************************************************************)
PowerLimits == {None, Some(200), Some(250)}

ClockOffsets == {None, Some(100), Some(150)}

GpuConfigs ==
    {[nvidia_config |-> [core_clock_offset |-> co, mem_clock_offset |-> mo],
      power_limit |-> pl] :
        pl \in PowerLimits, co \in ClockOffsets, mo \in ClockOffsets}

\* The sets of calls the driver may refuse during one apply_gpu_config.
RefusedCalls == SUBSET {NvmlConfigCalls[i] : i \in 1..Len(NvmlConfigCalls)}

InitGpuConfig ==
    /\ \E policy \in FoundPolicies :
          /\ nvDriver = Some(DriverDefault(policy))
          /\ nvDevice = Some(NvidiaDevice_new(policy))
    /\ nvResult = [op |-> "new"]
    /\ CfgIdle /\ DevIdle /\ ActIdle /\ CurveIdle

\* GpuDevice::apply_gpu_config
NvApplyGpuConfig ==
    /\ \E gpu_config \in GpuConfigs, refused \in RefusedCalls :
          \E r \in {NvidiaDevice_apply_gpu_config(Unwrap(nvDevice),
                                                  Unwrap(nvDriver),
                                                  gpu_config, refused)} :
              /\ nvDevice' = Some(r.dev)
              /\ nvDriver' = Some(r.drv)
              /\ nvResult' = [op |-> "apply_gpu_config",
                              gpu_config |-> gpu_config,
                              calls |-> r.calls, err |-> r.err]
    /\ UNCHANGED << cfgVars, devVars, actVars, curveVars >>

\* The fan mode is changed between two configurations.
NvConfigSetFanMode ==
    /\ Unwrap(nvDriver).healthy
    /\ \E fan_mode \in {FanAuto, FanManual(40)} :
          \E r \in {set_fan_mode(Unwrap(nvDevice), Unwrap(nvDriver),
                                 fan_mode)} :
              /\ r.dev # Unwrap(nvDevice)
              /\ nvDevice' = Some(r.dev)
              /\ nvDriver' = Some(r.drv)
    /\ nvResult' = [op |-> "set_fan_mode"]
    /\ UNCHANGED << cfgVars, devVars, actVars, curveVars >>

NextGpuConfig == NvApplyGpuConfig \/ NvConfigSetFanMode

SpecGpuConfig == InitGpuConfig /\ [][NextGpuConfig]_vars

\* The step is a call of apply_gpu_config.
ConfigApplied == nvResult'.op = "apply_gpu_config"

\* The number of calls of `call` in a sequence of calls.
CallCount(calls, call) ==
    Cardinality({i \in 1..Len(calls) : calls[i] = call})

\* The fields of a configuration, each with the call that sets it and the
\* driver setting it is about.
ConfigFields(gpu_config, drv) ==
    {[field |-> gpu_config.power_limit,
      call |-> "set_power_management_limit", setting |-> drv.power_limit],
     [field |-> gpu_config.nvidia_config.core_clock_offset,
      call |-> "set_gpc_clock_vf_offset",
      setting |-> drv.core_clock_offset],
     [field |-> gpu_config.nvidia_config.mem_clock_offset,
      call |-> "set_mem_clock_vf_offset",
      setting |-> drv.mem_clock_offset]}

\* What apply_gpu_config does hold for every outcome of the driver calls:
\* no call is made for an absent field and none twice, an absent field
\* leaves its setting as it was, a configuration without fields changes
\* nothing, and when the operation returned Ok every present field was set.
ApplyGpuConfigFrame ==
    [][ ConfigApplied =>
            LET c == nvResult'.gpu_config
                before == ConfigFields(c, Unwrap(nvDriver))
            IN  /\ nvDevice' = nvDevice
                /\ \A f \in ConfigFields(c, Unwrap(nvDriver)') :
                       /\ CallCount(nvResult'.calls, f.call) <= 1
                       /\ ~IsSome(f.field) =>
                              /\ CallCount(nvResult'.calls, f.call) = 0
                              /\ \E b \in before : /\ b.call = f.call
                                                   /\ b.setting = f.setting
                       /\ (IsSome(f.field) /\ nvResult'.err = None) =>
                              CallCount(nvResult'.calls, f.call) = 1
                /\ (\A f \in before : ~IsSome(f.field)) =>
                       nvDriver' = nvDriver ]_vars

\* C32, as claimed: apply_gpu_config calls the driver once for each field
\* that is present in the configuration and not at all for an absent one,
\* an absent field leaves the device's setting as it was, and a
\* configuration without fields leaves the device as it was.
ApplyGpuConfigPerField ==
    [][ ConfigApplied =>
            LET c == nvResult'.gpu_config
                before == ConfigFields(c, Unwrap(nvDriver))
            IN  /\ nvDevice' = nvDevice
                /\ \A f \in ConfigFields(c, Unwrap(nvDriver)') :
                       /\ CallCount(nvResult'.calls, f.call) =
                              IF IsSome(f.field) THEN 1 ELSE 0
                       /\ ~IsSome(f.field) =>
                              \E b \in before : /\ b.call = f.call
                                                /\ b.setting = f.setting
                /\ (\A f \in before : ~IsSome(f.field)) =>
                       nvDriver' = nvDriver ]_vars

(***************************************************************************)
(* The Set messages on their own (SpecSet): a file with two profiles, two  *)
(* curves, two configs and a binding is loaded, then Set messages address  *)
(* existing and new names.                                                 *)
(***************************************************************************)
SetDoc ==
    Document(
      << GpuJson("GPU-a", "p1") >>,
      << ProfileJson("p1", [FanModeJsonDefault EXCEPT !.curve = Some(TRUE)],
                     Some("c1"), Some("k1"), Some(2)),
         ProfileJson("p2", [FanModeJsonDefault EXCEPT !.manual = Some(TRUE),
                                                      !.manaul_speed = Some(40)],
                     None, None, None) >>,
      << FanCurveJson("c1", CurveInfoA.points, None, None),
         FanCurveJson("c2", CurveInfoB.points, Some(3), Some(3)) >>,
      << ConfigJson("k1", Some(200), None),
         ConfigJson("k2", None,
                    Some([core_offset |-> Some(100), mem_offset |-> None])) >>)

\* The names the Set messages address: "p3", "c3" and "k3" are not in the
\* file.  Each message kind carries one value, which differs from what the
\* file holds under the existing names.
SetProfileNames == {"p1", "p3"}

SetCurveNames == {"c2", "c3"}

SetConfigNames == {"k2", "k3"}

InitSet ==
    /\ cfgFile = SetDoc
    /\ cmPc = "new"
    /\ SetTablesInit
    /\ cmResult = [msg |-> [kind |-> "None"], reply |-> None, err |-> None]
    /\ cmSaveAge = 0
    /\ DevIdle
    /\ ActIdle
    /\ CurveIdle
    /\ FanIdle

SetProfileFanMode ==
    \E p \in SetProfileNames, m \in {FanManual(40)} :
        CfgHandle([kind |-> "SetProfileFanMode", profile |-> p, mode |-> m])

SetProfileFanCurve ==
    \E p \in SetProfileNames, c \in {Some("c2")} :
        CfgHandle([kind |-> "SetProfileFanCurve", profile |-> p,
                   curve_name |-> c])

SetFanUpdateInterval ==
    \E p \in SetProfileNames, i \in {1} :
        CfgHandle([kind |-> "SetFanUpdateInterval", profile |-> p,
                   update_intrerval |-> i])

SetProfileConfig ==
    \E p \in SetProfileNames, c \in {Some("k2")} :
        CfgHandle([kind |-> "SetProfileConfig", profile |-> p,
                   config_name |-> c])

SetFanCurve ==
    \E n \in SetCurveNames, c \in {CurveInfoA} :
        CfgHandle([kind |-> "SetFanCurve", curve_name |-> n, curve |-> c])

SetConfig ==
    \E n \in SetConfigNames, c \in {GpuConfigA} :
        CfgHandle([kind |-> "SetConfig", config_name |-> n, config |-> c])

NextSet ==
    \/ CfgStartup
    \/ SetProfileFanMode
    \/ SetProfileFanCurve
    \/ SetFanUpdateInterval
    \/ SetProfileConfig
    \/ SetFanCurve
    \/ SetConfig

SpecSet == InitSet /\ [][NextSet]_vars

\* The table `after` is `before` with the entry `value` under `name`, put
\* in or written over, and every other entry as it was.
Upserted(before, after, name, value) ==
    /\ DOMAIN after = DOMAIN before \cup {name}
    /\ after[name] = value
    /\ \A n \in DOMAIN before \ {name} : after[n] = before[n]

\* The field a SetProfile* message addresses and the value it carries.
AddressedField(msg) ==
    IF msg.kind = "SetProfileFanMode"
    THEN [name |-> "fan_mode", value |-> msg.mode]
    ELSE IF msg.kind = "SetProfileFanCurve"
    THEN [name |-> "fan_curve", value |-> msg.curve_name]
    ELSE IF msg.kind = "SetFanUpdateInterval"
    THEN [name |-> "update_interval", value |-> msg.update_intrerval]
    ELSE [name |-> "config", value |-> msg.config_name]

\* C34: a SetProfile* message for a profile other than "default" leaves
\* under that name the profile that was there with the addressed field
\* set, or, when there was none, a profile with the addressed field set
\* and the others at their defaults (Auto, no curve, no config, the default
\* interval); SetFanCurve and SetConfig put the given body under the given
\* name; every other profile, curve and config, and every binding, is as
\* it was.
SetUpserts ==
    [][ cmPc = "running" =>
          LET msg == cmResult'.msg
          IN  /\ gpu_datas' = gpu_datas
              /\ (/\ msg.kind \in SetProfileKinds
                  /\ msg.profile # DEFAULT_PROFILE_NAME) =>
                    LET f == AddressedField(msg)
                        old == IF msg.profile \in DOMAIN profile_datas
                               THEN profile_datas[msg.profile]
                               ELSE [fan_mode |-> FanAuto,
                                     fan_curve |-> None,
                                     config |-> None,
                                     update_interval |->
                                         DEFAULT_FAN_UPDATE_INTERVAL]
                    IN  /\ Upserted(profile_datas, profile_datas',
                                    msg.profile,
                                    [old EXCEPT ![f.name] = f.value])
                        /\ fan_curve_datas' = fan_curve_datas
                        /\ config_datas' = config_datas
                        /\ cmResult'.err = None
              /\ msg.kind = "SetFanCurve" =>
                    /\ Upserted(fan_curve_datas, fan_curve_datas',
                                msg.curve_name, msg.curve)
                    /\ profile_datas' = profile_datas
                    /\ config_datas' = config_datas
                    /\ cmResult'.err = None
              /\ msg.kind = "SetConfig" =>
                    /\ Upserted(config_datas, config_datas',
                                msg.config_name, msg.config)
                    /\ profile_datas' = profile_datas
                    /\ fan_curve_datas' = fan_curve_datas
                    /\ cmResult'.err = None ]_vars

\* Profile "p3", which is not in the file, was created by
\* SetProfileFanCurve with the other fields at their defaults, while "p1"
\* and "p2" are as loaded apart from a fan mode set on "p1".
SetUpsertsWitness ==
    /\ cmResult.msg = [kind |-> "SetProfileFanCurve", profile |-> "p3",
                       curve_name |-> Some("c2")]
    /\ profile_datas["p3"] = [ProfileDataDefault EXCEPT
                                 !.fan_curve = Some("c2")]
    /\ profile_datas["p1"] = [fan_mode |-> FanManual(40),
                              fan_curve |-> Some("c1"),
                              config |-> Some("k1"), update_interval |-> 2]
    /\ profile_datas["p2"].fan_mode = FanManual(40)
    /\ "c3" \in DOMAIN fan_curve_datas
    /\ "c2" \in DOMAIN fan_curve_datas

(***************************************************************************)
(* A hysteresis curve built from a FanCurveInfo without thresholds         *)
(* (SpecTrack): get_speed is called for any sequence of temperatures while *)
(* the points of the curve inside change.                                  *)
(***************************************************************************)
\* FanCurveInfo values whose thresholds are both unspecified.
TrackInfos ==
    {[points |-> list, lower_threshold |-> None, upper_threshold |-> None] :
        list \in {<< <<40, 30>>, <<60, 70>> >>, << <<0, 58>>, <<22, 0>> >>,
                  << >>}}

InitTrack ==
    /\ linear = None
    /\ hysteresis = None
    /\ curveResult = [op |-> "none"]
    /\ curveCalls = << >>
    /\ curveOps = 0
    /\ CfgIdle /\ DevIdle /\ ActIdle /\ FanIdle

\* HysteresisCurve::from_info
HysteresisFromInfo ==
    /\ hysteresis = None
    /\ \E info \in TrackInfos :
          hysteresis' = Some(HysteresisCurve_from_info(info).curve)
    /\ curveResult' = [op |-> "from_info"]
    /\ UNCHANGED << linear, curveCalls, curveOps >>
    /\ UNCHANGED << cfgVars, devVars, actVars, fanVars >>

NextTrack ==
    \/ HysteresisFromInfo
    \/ HysteresisGetSpeed
    \/ HysteresisAddPoint
    \/ HysteresisUpdatePoint
    \/ HysteresisRemovePoint

SpecTrack == InitTrack /\ [][NextTrack]_vars

\* C35: a hysteresis curve built by from_info from a FanCurveInfo without
\* thresholds answers every get_speed call with what the linear curve
\* inside it gives for the temperature asked, whatever was asked before.
ZeroThresholdsTrack ==
    (IsSome(hysteresis) /\ curveResult.op = "get_speed") =>
        /\ curveResult.speed =
               LinearCurve_get_speed(Unwrap(hysteresis).curve,
                                     curveResult.temp)
        /\ Unwrap(hysteresis).last_update =
               Some(<< curveResult.temp, curveResult.speed >>)

\* The temperature went up by one degree and came back, and each of the
\* three answers is the linear curve's for the temperature asked.
ZeroThresholdsTrackWitness ==
    /\ IsSome(hysteresis)
    /\ curveOps = 0
    /\ Len(curveCalls) = 3
    /\ curveCalls[1][1] = 50 /\ curveCalls[2][1] = 51 /\ curveCalls[3][1] = 50
    /\ curveCalls[2][2] # curveCalls[1][2]
    /\ curveCalls[3][2] = curveCalls[1][2]
    /\ \A i \in 1..3 :
          curveCalls[i][2] =
              LinearCurve_get_speed(Unwrap(hysteresis).curve, curveCalls[i][1])

(***************************************************************************)
(* The linear curve at and beyond its points (SpecEdges): curves with no,  *)
(* one and several points, asked at their keys, below and above them.      *)
(***************************************************************************)
\* The point lists given to LinearCurve::new.
EdgeLists ==
    {<< >>,
     << <<50, 60>> >>,
     << <<40, 30>>, <<60, 70>> >>,
     << <<39, 200>>, <<61, 10>> >>,
     << <<11, 0>>, <<50, 100>>, <<61, 5>> >>,
     << <<0 - 10, 20>>, <<BigTemp + 1, 90>> >>,
     << <<BigTemp + 2, 45>> >>}

InitEdges ==
    /\ \E list \in EdgeLists : linear = Some(LinearCurve_from_points(list))
    /\ hysteresis = None
    /\ curveResult = [op |-> "new"]
    /\ curveCalls = << >>
    /\ curveOps = 0
    /\ CfgIdle /\ DevIdle /\ ActIdle /\ FanIdle

NextEdges ==
    \/ LinearGetSpeed
    \/ LinearAddPoint
    \/ LinearUpdatePoint
    \/ LinearRemovePoint

SpecEdges == InitEdges /\ [][NextEdges]_vars

\* C36: get_speed of a linear curve gives the stored percent at a key, the
\* percent of the lowest point below all keys, the percent of the highest
\* point above all keys, and 100 when the curve has no point.
LinearCurveEdges ==
    (IsSome(linear) /\ curveResult.op = "get_speed") =>
        LET curve == Unwrap(linear)
            temp == curveResult.temp
        IN  /\ temp \in DOMAIN curve => curveResult.speed = curve[temp]
            /\ DOMAIN curve = {} => curveResult.speed = 100
            /\ (DOMAIN curve # {} /\ \A t \in DOMAIN curve : temp < t) =>
                   curveResult.speed = curve[SetMin(DOMAIN curve)]
            /\ (DOMAIN curve # {} /\ \A t \in DOMAIN curve : temp > t) =>
                   curveResult.speed = curve[SetMax(DOMAIN curve)]

\* The curve lost its only point and was then asked for a speed.
LinearCurveEdgesWitness ==
    /\ IsSome(linear)
    /\ curveOps = 1
    /\ DOMAIN Unwrap(linear) = {}
    /\ curveResult.op = "get_speed"
    /\ curveResult.speed = 100

(***************************************************************************)
(* The sample of one board (SpecSample): the data and info requests of the *)
(* Devices Manager on one NvidiaDevice, while time passes, the update      *)
(* interval is changed and single NVML reads fail.                         *)
(***************************************************************************)
\* The NVML reads of a sample.
SampleReads ==
    {"device_by_uuid", "utilization_rates", "power_usage", "clock_sm"}

AllOk == [c \in SampleReads |-> "ok"]

\* The outcomes of the reads during one request: all succeed, or one of
\* them is unsupported or fails.
SampleOutcomes ==
    {AllOk} \cup {[AllOk EXCEPT ![c] = o] :
                     c \in SampleReads, o \in {"unsupported", "error"}}

\* The update intervals set, in seconds.
SampleIntervals == {0, 2}

\* The time the board is observed for, in seconds.
MaxSampleTime == 3

\* NvidiaDevice::new succeeded at time 0.
InitSample ==
    /\ \E outcome \in SampleOutcomes :
          /\ IsSome(NvidiaDevice_sampled(outcome))
          /\ nvDevice = NvidiaDevice_sampled(outcome)
    /\ nvDriver = None
    /\ nvResult = [op |-> "new"]
    /\ CfgIdle /\ DevIdle /\ ActIdle /\ CurveIdle

\* parse_message, GetDeviceData and GetDeviceVendorData: the answer is
\* get_data().ok() or get_vendor_data().ok(), and the arm returns Ok.
SampleGetData ==
    /\ \E vendor \in BOOLEAN, outcome \in SampleOutcomes :
          \E r \in {NvidiaDevice_get_data(Unwrap(nvDevice), vendor, outcome,
                                          now)} :
              /\ nvDevice' = Some(r.dev)
              /\ nvResult' = [op |-> "get_data", vendor |-> vendor,
                              outcome |-> outcome, calls |-> r.calls,
                              answer |-> r.data, device_err |-> r.err,
                              err |-> None]
    /\ UNCHANGED nvDriver
    /\ UNCHANGED << cfgVars, devVars, actVars, curveVars >>

\* parse_message, GetDeviceInfo and GetDeviceVendorInfo: get_info and
\* get_vendor_info clone the stored info.
SampleGetInfo ==
    /\ \E vendor \in BOOLEAN :
          nvResult' = [op |-> "get_info", vendor |-> vendor,
                       calls |-> << >>,
                       answer |-> IF vendor
                                  THEN Unwrap(nvDevice).gpu_vendor_info
                                  ELSE Unwrap(nvDevice).gpu_info]
    /\ UNCHANGED << nvDevice, nvDriver >>
    /\ UNCHANGED << cfgVars, devVars, actVars, curveVars >>

\* parse_message, SetDeviceDataUpdateInterval: set_data_update_interval
SampleSetInterval ==
    /\ \E interval \in SampleIntervals :
          /\ interval # Unwrap(nvDevice).gpu_data_update_interval
          /\ nvDevice' = Some([Unwrap(nvDevice) EXCEPT
                                  !.gpu_data_update_interval = interval])
    /\ nvResult' = [op |-> "set_data_update_interval"]
    /\ UNCHANGED nvDriver
    /\ UNCHANGED << cfgVars, devVars, actVars, curveVars >>

\* One second passes.
SampleTick ==
    /\ now < MaxSampleTime
    /\ now' = now + 1
    /\ UNCHANGED << cfgFile, cmPc, gpu_datas, profile_datas,
                    fan_curve_datas, config_datas, cmResult, cmSaveAge,
                    devices, driver, fan_update_intervals, last_fan_updates,
                    devicesOrder, lastUpdatesOrder, next_fan_update_device,
                    next_fan_update_time, sleepStart, dmPc, cancelled,
                    dmResult, dmHandled, dmQueue, cmQueue, dbusQueue,
                    errQueue, dmReply, cmReply, dbusReply, dmWait, dbusWait,
                    smPc, smUuids, smStep, smResult, dbusPc, dbusTodo,
                    dbusObjects, dbusName, dbusResult, dmLog >>
    /\ UNCHANGED << curveVars, fanVars >>

NextSample ==
    \/ SampleGetData
    \/ SampleGetInfo
    \/ SampleSetInterval
    \/ SampleTick

SpecSample == InitSample /\ [][NextSample]_vars

(***************************************************************************)
(* Discovery (SpecDiscover): DevicesManager::new on a machine whose boards *)
(* NVML enumerates in some order, while single NVML calls of the discovery *)
(* fail.                                                                   *)
(***************************************************************************)
\* The boards NVML enumerates.
DiscoverBoards == {"GPU-a", "GPU-b", "GPU-c"}

\* What happens to one board during discovery: it is created, or
\* device_by_index, uuid or NvidiaDevice::new fails for it.
BoardOutcomes == {"ok", "device_by_index", "uuid", "new"}

\* What NVML itself does: Nvml::init fails, device_count fails, or both
\* succeed.
NvmlStarts == {"ok", "init", "device_count"}

\* discover_nvidia_gpus from index i on: the loop over 0..device_count.
\* Every call of the body is made under `?`: the first board for which a
\* call fails ends the function, with the boards inserted so far left in
\* the map.
RECURSIVE DiscoverFrom(_, _, _, _)
DiscoverFrom(boards, outcome, i, devices_map) ==
    IF i > Len(boards) THEN [devices |-> devices_map, err |-> None]
    ELSE IF outcome[boards[i]] # "ok"
         THEN [devices |-> devices_map,
               err |-> Some(<<outcome[boards[i]], boards[i]>>)]
         ELSE DiscoverFrom(boards, outcome, i + 1,
                           Put(devices_map, boards[i],
                               NvidiaDevice_new(PolicyAuto)))

\* discover_nvidia_gpus
discover_nvidia_gpus(nvml, boards, outcome) ==
    IF nvml = "device_count"
    THEN [devices |-> EmptyMap, err |-> Some(<<"device_count", "">>)]
    ELSE DiscoverFrom(boards, outcome, 1, EmptyMap)

\* DevicesManager::new: NVML is initialized, the boards are discovered (an
\* error of the discovery is logged as a warning), and the fan of every
\* board found is updated once.
DevicesManager_discover(nvml, boards, outcome) ==
    CHOOSE dm \in
        {[devices |-> [u \in DOMAIN found.devices |->
                          update_fan(found.devices[u],
                                     DriverDefault(PolicyAuto)).dev],
          driver |-> [u \in DOMAIN found.devices |->
                         update_fan(found.devices[u],
                                    DriverDefault(PolicyAuto)).drv],
          fan_update_intervals |->
              [u \in DOMAIN found.devices |-> DEFAULT_FAN_UPDATE_INTERVAL],
          last_fan_updates |-> [u \in DOMAIN found.devices |-> 0],
          warn |-> found.err] :
             found \in {IF nvml = "init"
                        THEN [devices |-> EmptyMap, err |-> None]
                        ELSE discover_nvidia_gpus(nvml, boards, outcome)}} :
        TRUE

\* The daemon has not built its Devices Manager yet: the machine's boards,
\* their order and the outcome of the NVML calls are fixed.
InitDiscover ==
    /\ \E nvml \in NvmlStarts, boards \in Perms(DiscoverBoards),
          outcome \in [DiscoverBoards -> BoardOutcomes] :
          dmResult = [msg |-> [kind |-> "Machine", nvml |-> nvml,
                               boards |-> boards, outcome |-> outcome],
                      reply |-> None, err |-> None]
    /\ devices = EmptyMap
    /\ driver = EmptyMap
    /\ fan_update_intervals = EmptyMap
    /\ last_fan_updates = EmptyMap
    /\ devicesOrder = << >>
    /\ lastUpdatesOrder = << >>
    /\ next_fan_update_device = ""
    /\ next_fan_update_time = 0
    /\ sleepStart = 0
    /\ now = 0
    /\ dmPc = "exited"
    /\ cancelled = FALSE
    /\ dmHandled = 0
    /\ CfgIdle /\ ActIdle /\ CurveIdle /\ FanIdle

\* DevicesManager::new
DiscoverNew ==
    /\ dmResult.msg.kind = "Machine"
    /\ \E dm \in {DevicesManager_discover(dmResult.msg.nvml,
                                          dmResult.msg.boards,
                                          dmResult.msg.outcome)} :
          /\ devices' = dm.devices
          /\ driver' = dm.driver
          /\ fan_update_intervals' = dm.fan_update_intervals
          /\ last_fan_updates' = dm.last_fan_updates
          /\ dmResult' = [dmResult EXCEPT !.msg.kind = "New",
                                          !.err = dm.warn]
    /\ UNCHANGED << cfgFile, cmPc, gpu_datas, profile_datas,
                    fan_curve_datas, config_datas, cmResult, cmSaveAge,
                    devicesOrder, lastUpdatesOrder, next_fan_update_device,
                    next_fan_update_time, sleepStart, now, dmPc, cancelled,
                    dmHandled, dmQueue, cmQueue, dbusQueue, errQueue,
                    dmReply, cmReply, dbusReply, dmWait, dbusWait, smPc,
                    smUuids, smStep, smResult, dbusPc, dbusTodo,
                    dbusObjects, dbusName, dbusResult, dmLog >>
    /\ UNCHANGED << curveVars, fanVars >>

NextDiscover == DiscoverNew

SpecDiscover == InitDiscover /\ [][NextDiscover]_vars

(***************************************************************************)
(* The startup apply run again (SpecReapply): apply_settings of the State  *)
(* Manager, with the Devices Manager handling the messages it sends, run   *)
(* more than once on a loaded configuration while the fans are updated and *)
(* the temperature of the boards moves.                                    *)
(***************************************************************************)
\* The configuration files: curve mode with a curve, a configuration and an
\* interval; manual mode with nothing else; a board left to the default
\* profile; a hysteresis curve with thresholds and a clock offset.
ReapplyDocs ==
    {Document(
       << GpuJson("GPU-a", "p1"), GpuJson("GPU-b", "p2") >>,
       << ProfileJson("p1", [FanModeJsonDefault EXCEPT !.curve = Some(TRUE)],
                      Some("c1"), Some("k1"), Some(2)),
          ProfileJson("p2", [FanModeJsonDefault EXCEPT
                                !.manual = Some(TRUE),
                                !.manaul_speed = Some(40)],
                      None, None, None) >>,
       << FanCurveJson("c1", CurveInfoA.points, None, None) >>,
       << ConfigJson("k1", Some(200), None) >>),
     Document(
       << GpuJson("GPU-b", "p3") >>,
       << ProfileJson("p3", [FanModeJsonDefault EXCEPT !.curve = Some(TRUE)],
                      Some("c2"), Some("k2"), None) >>,
       << FanCurveJson("c2", CurveInfoB.points, Some(3), Some(3)) >>,
       << ConfigJson("k2", None,
                     Some([core_offset |-> Some(100),
                           mem_offset |-> None])) >>)}

\* The temperatures the sensor of a board reads.
ReapplyTemperatures == {Some(45), Some(InitialTemperature), None}

\* The number of times apply_settings is run.
MaxApplies == 2

\* apply_settings for one device from setting i of ApplyOrder on: the
\* Configuration Manager is asked, and the message built from its answer
\* is handled by the Devices Manager.  A query that gets no answer ends
\* apply_settings; an error of the Devices Manager goes to the error
\* channel and ends nothing.
RECURSIVE ApplyDeviceFrom(_, _, _, _, _)
ApplyDeviceFrom(cm, dm, uuid, i, t) ==
    IF i > Len(ApplyOrder) THEN [dm |-> dm, err |-> None]
    ELSE CHOOSE res \in
        {IF answer.reply = None THEN [dm |-> dm, err |-> Some("RX")]
         ELSE ApplyDeviceFrom(
                  cm,
                  IF IsSome(ApplyMessage(uuid, Unwrap(answer.reply)))
                  THEN dm_parse_message(
                           dm, Unwrap(ApplyMessage(uuid,
                                                   Unwrap(answer.reply))),
                           t).dm
                  ELSE dm,
                  uuid, i + 1, t) :
            answer \in {handle_get_message(cm, [kind |-> ApplyOrder[i],
                                                uuid |-> uuid])}} : TRUE

\* apply_settings over the devices in the order ListDevices gave them.
RECURSIVE apply_settings(_, _, _, _)
apply_settings(cm, dm, uuids, t) ==
    IF uuids = << >> THEN [dm |-> dm, err |-> None]
    ELSE CHOOSE res \in
        {IF r.err # None THEN r
         ELSE apply_settings(cm, r.dm, Tail(uuids), t) :
            r \in {ApplyDeviceFrom(cm, dm, Head(uuids), 1, t)}} : TRUE

\* The number of times apply_settings has run.
AppliesRun ==
    IF smResult.handler = "apply_settings" THEN smResult.runs ELSE 0

\* Both managers are constructed, the file is loaded; a board whose driver
\* is not healthy refuses every call.
InitReapply ==
    /\ \E doc \in ReapplyDocs, policy \in InitialPolicies,
          unhealthy \in SUBSET DevUuids :
          \E cm \in {parse_config_file(NewConfigManager, doc).cm},
             dm \in {DevicesManager_new(policy)} :
              /\ cfgFile = doc
              /\ gpu_datas = cm.gpu_datas
              /\ profile_datas = cm.profile_datas
              /\ fan_curve_datas = cm.fan_curve_datas
              /\ config_datas = cm.config_datas
              /\ devices = dm.devices
              /\ driver = [u \in DevUuids |->
                              [dm.driver[u] EXCEPT
                                  !.healthy = u \notin unhealthy]]
              /\ fan_update_intervals = dm.fan_update_intervals
              /\ last_fan_updates = dm.last_fan_updates
    /\ cmPc = "running"
    /\ cmResult = [msg |-> [kind |-> "Startup"], reply |-> None, err |-> None]
    /\ cmSaveAge = 0
    /\ devicesOrder = << >>
    /\ lastUpdatesOrder = << >>
    /\ next_fan_update_device = ""
    /\ next_fan_update_time = 0
    /\ sleepStart = 0
    /\ now = 0
    /\ dmPc = "running"
    /\ cancelled = FALSE
    /\ dmResult = [msg |-> [kind |-> "None"], reply |-> None, err |-> None]
    /\ dmHandled = 0
    /\ ActIdle /\ CurveIdle /\ FanIdle

\* apply_settings, and the Devices Manager handling what it sent.
ReapplyStartup ==
    /\ AppliesRun < MaxApplies
    /\ \E uuids \in Perms(DOMAIN devices) :
          \E r \in {apply_settings(CM, DM, uuids, now)} :
              /\ SetDM(r.dm)
              /\ smResult' = [handler |-> "apply_settings", err |-> r.err,
                              logged |-> r.err # None,
                              runs |-> AppliesRun + 1]
    /\ UNCHANGED << cfgFile, cmPc, gpu_datas, profile_datas,
                    fan_curve_datas, config_datas, cmResult, cmSaveAge,
                    devicesOrder, lastUpdatesOrder, next_fan_update_device,
                    next_fan_update_time, sleepStart, now, dmPc, cancelled,
                    dmResult, dmHandled, dmQueue, cmQueue, dbusQueue,
                    errQueue, dmReply, cmReply, dbusReply, dmWait, dbusWait,
                    smPc, smUuids, smStep, dbusPc, dbusTodo, dbusObjects,
                    dbusName, dbusResult, dmLog >>
    /\ UNCHANGED << curveVars, fanVars >>

\* The timer of the Devices Manager: update_fans for one device.
ReapplyUpdateFans ==
    /\ \E uuid \in DOMAIN devices :
          \E r \in {update_fans(DM, uuid, now)} :
              /\ SetDM(r.dm)
              /\ dmResult' = [msg |-> [kind |-> "UpdateFans", uuid |-> uuid],
                              reply |-> None, err |-> r.err]
    /\ UNCHANGED << cfgFile, cmPc, gpu_datas, profile_datas,
                    fan_curve_datas, config_datas, cmResult, cmSaveAge,
                    devicesOrder, lastUpdatesOrder, next_fan_update_device,
                    next_fan_update_time, sleepStart, now, dmPc, cancelled,
                    dmHandled, dmQueue, cmQueue, dbusQueue, errQueue,
                    dmReply, cmReply, dbusReply, dmWait, dbusWait, smPc,
                    smUuids, smStep, smResult, dbusPc, dbusTodo,
                    dbusObjects, dbusName, dbusResult, dmLog >>
    /\ UNCHANGED << curveVars, fanVars >>

\* The sensor of a board reads another temperature, or stops answering.
ReapplyTemperature ==
    /\ \E uuid \in DOMAIN driver, temp \in ReapplyTemperatures :
          /\ temp # driver[uuid].temperature
          /\ driver' = [driver EXCEPT ![uuid].temperature = temp]
    /\ UNCHANGED << cfgFile, cmPc, gpu_datas, profile_datas,
                    fan_curve_datas, config_datas, cmResult, cmSaveAge,
                    devices, fan_update_intervals, last_fan_updates,
                    devicesOrder, lastUpdatesOrder, next_fan_update_device,
                    next_fan_update_time, sleepStart, now, dmPc, cancelled,
                    dmResult, dmHandled, dmQueue, cmQueue, dbusQueue,
                    errQueue, dmReply, cmReply, dbusReply, dmWait, dbusWait,
                    smPc, smUuids, smStep, smResult, dbusPc, dbusTodo,
                    dbusObjects, dbusName, dbusResult, dmLog >>
    /\ UNCHANGED << curveVars, fanVars >>

NextReapply ==
    \/ ReapplyStartup
    \/ ReapplyUpdateFans
    \/ ReapplyTemperature

SpecReapply == InitReapply /\ [][NextReapply]_vars

(***************************************************************************)
(* Frame conditions of the device operations (SpecDev).                    *)
(***************************************************************************)
\* The message branch has just handled `kind` for a board of the device set.
DevHandled(kind) ==
    /\ dmHandled' = dmHandled + 1
    /\ dmResult'.msg.kind = kind
    /\ dmResult'.msg.uuid \in DOMAIN devices

\* C31: handling SetDeviceFanCurve for a board of the device set replaces
\* that board's curve object by the one given and changes nothing else:
\* the board's recorded fan mode, its sampling fields, its fan update
\* interval, its last fan update and its driver state stay as they were,
\* and so does every other board.
SetFanCurveFrame ==
    [][ DevHandled("SetDeviceFanCurve") =>
            LET d == dmResult'.msg.uuid
            IN  /\ devices' = [devices EXCEPT
                                  ![d].fan_curve = dmResult'.msg.fan_curve]
                /\ devices'[d].fan_mode = devices[d].fan_mode
                /\ driver' = driver
                /\ fan_update_intervals' = fan_update_intervals
                /\ last_fan_updates' = last_fan_updates
                /\ dmResult'.err = None ]_vars

\* A board in manual mode, still with the curve it was constructed with,
\* has been given a new curve.
SetFanCurveFrameWitness ==
    /\ dmResult.msg.kind = "SetDeviceFanCurve"
    /\ dmResult.msg.uuid \in DOMAIN devices
    /\ devices[dmResult.msg.uuid].fan_curve = dmResult.msg.fan_curve
    /\ devices[dmResult.msg.uuid].fan_curve # DefaultFanCurve
    /\ devices[dmResult.msg.uuid].fan_mode.kind = "Manual"
    /\ \E u \in DOMAIN devices : devices[u].fan_curve = DefaultFanCurve

(***************************************************************************)
(* Resolution and the Set messages of the Configuration Manager (SpecCfg). *)
(***************************************************************************)
\* The entry a profile's optional name refers to: None when the profile
\* holds no name and when the name has no entry in the table.
NamedEntry(name, table) ==
    IF name = None THEN None
    ELSE IF Unwrap(name) \in DOMAIN table THEN Some(table[Unwrap(name)])
    ELSE None

\* The device id has a binding, and the binding names an existing profile.
BoundToProfile(u) ==
    /\ u \in DOMAIN gpu_datas
    /\ gpu_datas[u].profile \in DOMAIN profile_datas

DataRequested == now' = now /\ nvResult'.op = "get_data"

InfoRequested == now' = now /\ nvResult'.op = "get_info"

\* The sample a data request answers with, general or vendor specific.
StoredSample(dev, vendor) ==
    IF vendor THEN dev.gpu_vendor_data ELSE dev.gpu_data

\* C37: a data request reads from the driver exactly when the update
\* interval has elapsed since the last sample; when it has not, the stored
\* sample is answered and the device is left as it was; the time of the
\* last sample moves, to the current time, only when all reads of a due
\* sample succeeded, and the answer is then the sample just read.  An info
\* request makes no driver call, leaves the device as it was and answers
\* the info read at construction.
LazySampleRefresh ==
    /\ [][ DataRequested =>
             LET dev == Unwrap(nvDevice)
                 after == Unwrap(nvDevice')
                 due == now - dev.gpu_data_last_update
                            >= dev.gpu_data_update_interval
             IN  /\ (nvResult'.calls # << >>) <=> due
                 /\ ~due =>
                       /\ after = dev
                       /\ nvResult'.answer =
                              Some(StoredSample(dev, nvResult'.vendor))
                 /\ after.gpu_data_last_update # dev.gpu_data_last_update =>
                       due /\ nvResult'.device_err = None
                 /\ (due /\ nvResult'.device_err = None) =>
                       /\ after.gpu_data_last_update = now
                       /\ after.gpu_data.power_usage = NvmlValue(now)
                       /\ nvResult'.answer =
                              Some(StoredSample(after, nvResult'.vendor))
                 /\ (due /\ nvResult'.device_err # None) =>
                       after.gpu_data_last_update =
                           dev.gpu_data_last_update ]_vars
    /\ [][ InfoRequested =>
             /\ nvResult'.calls = << >>
             /\ nvDevice' = nvDevice
             /\ nvResult'.answer \in {[uuid |-> "GPU-a"],
                                      [vbios |-> "vbios"]} ]_vars

\* With the interval at 2 s, a request one second after the sample was
\* answered from the stored sample without a driver call.
LazySampleRefreshWitness ==
    /\ nvResult.op = "get_data"
    /\ nvResult.calls = << >>
    /\ now = 3
    /\ Unwrap(nvDevice).gpu_data_update_interval = 2
    /\ Unwrap(nvDevice).gpu_data_last_update = 2
    /\ nvResult.answer = Some(StoredSample(Unwrap(nvDevice), nvResult.vendor))
    /\ Unwrap(nvDevice).gpu_data.power_usage = NvmlValue(2)

\* The field of the stored sample a read fills, as an optional value: the
\* fields of GpuData are plain numbers, which can never be None, the
\* fields of GpuVendorData are Option values.
SampleField(dev, read) ==
    IF read = "utilization_rates" THEN Some(dev.gpu_data.core_usage)
    ELSE IF read = "power_usage" THEN Some(dev.gpu_data.power_usage)
    ELSE dev.gpu_vendor_data.sm_freq

\* The reads made by the request handled last whose outcome was `o`.
ReadsWith(o) ==
    {nvResult.calls[i] : i \in 1..Len(nvResult.calls)}
        \cap {c \in SampleReads : nvResult.outcome[c] = o}

\* What does hold for the vendor specific reads, which go through
\* ok_support: an unsupported read leaves None in the sample and the
\* request is answered; another error makes the request fail.
VendorReadsNormalized ==
    (nvResult.op = "get_data" /\ nvResult.calls # << >>
         /\ nvResult.outcome["clock_sm"] # "ok"
         /\ "clock_sm" \in ReadsWith(nvResult.outcome["clock_sm"])) =>
        IF nvResult.outcome["clock_sm"] = "unsupported"
        THEN /\ IsSome(nvResult.answer)
             /\ Unwrap(nvDevice).gpu_vendor_data.sm_freq = None
        ELSE nvResult.answer = None /\ nvResult.device_err # None

\* C38, as claimed: after a data request that read from the driver, when
\* no read failed with an error other than unsupported the request was
\* answered with a sample in which the field of every unsupported read is
\* None; when a read failed with another error the sample failed and the
\* request got no sample.
UnsupportedReadsAreNone ==
    (nvResult.op = "get_data" /\ nvResult.calls # << >>) =>
        IF ReadsWith("error") = {}
        THEN /\ IsSome(nvResult.answer)
             /\ \A read \in ReadsWith("unsupported") \ {"device_by_uuid"} :
                    SampleField(Unwrap(nvDevice), read) = None
        ELSE nvResult.answer = None /\ nvResult.device_err # None

\* The boards of the machine whose calls had the outcome `o`.
BoardsWith(o) == {u \in DiscoverBoards : dmResult.msg.outcome[u] = o}

\* The boards enumerated before the first one for which a call failed.
BoardsBeforeFailure ==
    LET boards == dmResult.msg.boards
        failed == {i \in 1..Len(boards) :
                      dmResult.msg.outcome[boards[i]] # "ok"}
    IN  {boards[i] : i \in {j \in 1..Len(boards) :
                               \A k \in failed : j < k}}

\* What does hold: the device set is the boards enumerated before the
\* first failure, each with its fan update interval and last update, and
\* a failure is logged as one warning.
DiscoveryKeepsPrefix ==
    (dmResult.msg.kind = "New" /\ dmResult.msg.nvml = "ok") =>
        /\ DOMAIN devices = BoardsBeforeFailure
        /\ DOMAIN fan_update_intervals = DOMAIN devices
        /\ DOMAIN last_fan_updates = DOMAIN devices
        /\ (dmResult.err # None) = (BoardsBeforeFailure # DiscoverBoards)

\* C39, as claimed: after DevicesManager::new on a machine where NVML
\* started and every board was enumerated, the boards whose NvidiaDevice::new
\* failed are not in the device set and a warning was logged for them, and
\* every other board is in the set, wherever it stands in the enumeration.
DiscoveryPerDevice ==
    (/\ dmResult.msg.kind = "New"
     /\ dmResult.msg.nvml = "ok"
     /\ BoardsWith("device_by_index") = {}
     /\ BoardsWith("uuid") = {}) =>
        /\ DOMAIN devices = BoardsWith("ok")
        /\ (BoardsWith("new") # {}) => dmResult.err # None

\* The description of a fan curve: its points, and the thresholds of a
\* hysteresis curve; not the last update a hysteresis curve remembers.
FanCurveDescription(fan_curve) ==
    IF fan_curve.kind = "Linear"
    THEN [kind |-> "Linear", points |-> fan_curve.curve]
    ELSE [kind |-> "Hysteresis", points |-> fan_curve.curve.curve,
          lower_threshold |-> fan_curve.curve.lower_threshold,
          upper_threshold |-> fan_curve.curve.upper_threshold]

\* What the Devices Manager holds of the settings of one device: the fan
\* mode, the description of the fan curve, the fan update interval, and
\* the configuration the driver holds.
AppliedSettings(u) ==
    [fan_mode |-> devices[u].fan_mode,
     fan_curve |-> FanCurveDescription(devices[u].fan_curve),
     fan_update_interval |-> fan_update_intervals[u],
     power_limit |-> driver[u].power_limit,
     core_clock_offset |-> driver[u].core_clock_offset,
     mem_clock_offset |-> driver[u].mem_clock_offset]

\* C40: a run of apply_settings made after an earlier run, the
\* configuration being the same, leaves with the Devices Manager the same
\* fan mode, fan curve description, fan update interval and driver
\* configuration for every device as the earlier run left.
StartupApplyIdempotent ==
    [][(AppliesRun >= 1 /\ AppliesRun' = AppliesRun + 1) =>
           /\ DOMAIN devices' = DOMAIN devices
           /\ DOMAIN fan_update_intervals' = DOMAIN fan_update_intervals
           /\ \A u \in DOMAIN devices :
                  AppliedSettings(u)' = AppliedSettings(u)]_vars

\* apply_settings has run twice on a board that runs a hysteresis curve
\* with a clock offset from the file, and the fan was updated since.
StartupApplyIdempotentWitness ==
    /\ AppliesRun = 2
    /\ "GPU-b" \in DOMAIN devices
    /\ devices["GPU-b"].fan_mode = FanCurveMode
    /\ devices["GPU-b"].fan_curve.kind = "Hysteresis"
    /\ driver["GPU-b"].core_clock_offset = 100
    /\ driver["GPU-b"].fan_speed # None

====
